---------------------------- MODULE Spec2Model ----------------------------
(***************************************************************************)
(* VB6 Project Mapper: the component registry (models/components.py,       *)
(* parsers/vbp_parser.py), the reference scanner (analyzers/               *)
(* dependency_analyzer.py), the graph query layer (utils/helpers.py), the  *)
(* projection builders (generators/diagrams/), the JSON export and the     *)
(* HTML report (generators/), and the run of main (main.py).               *)
(*                                                                         *)
(* Python strings are sequences of one-character strings, so that          *)
(* str.lower(), str.split(), str.strip(), os.path.basename(),              *)
(* os.path.splitext() and the scanner's whole-identifier matching are      *)
(* computed character by character.                                        *)
(***************************************************************************)
EXTENDS Integers, Sequences, FiniteSets, TLC

VARIABLES
    components,   \* project.components: list of VB6Component records
    files,        \* the source directory: file name -> text, or NoFile
    scans,        \* number of completed analyze_dependencies passes
    raised,       \* TRUE when a scan pass ended with an exception
    call,         \* the last query made of the project since it changed
    hashseed,     \* the interpreter's hash seed: fixes how a set is iterated
    run           \* the run of main: its position and the calls it made

vars == <<components, files, scans, raised, call, hashseed, run>>

(***************************************************************************)
(* Bounds of the model.                                                    *)
(***************************************************************************)
MaxComponents == 3
MaxScans == 2
CoreSize == 22

(***************************************************************************)
(* Python string primitives.                                               *)
(***************************************************************************)
Range(s) == {s[i] : i \in 1..Len(s)}

\* str.lower() on one character.
LowerChar(c) ==
    CASE c = "A" -> "a"
      [] c = "B" -> "b"
      [] c = "E" -> "e"
      [] c = "N" -> "n"
      [] c = "S" -> "s"
      [] c = "W" -> "w"
      [] c = "X" -> "x"
      [] c = "Z" -> "z"
      [] OTHER -> c

\* str.lower()
Lower(s) == [i \in 1..Len(s) |-> LowerChar(s[i])]

\* s[i:] and s[:i] with Python's 0-based bounds turned into 1-based SubSeq.
From(s, i) == SubSeq(s, i, Len(s))
Upto(s, i) == SubSeq(s, 1, i)

\* The digits of str(n) for n >= 0.
DigitChar(d) ==
    CASE d = 0 -> "0" [] d = 1 -> "1" [] d = 2 -> "2" [] d = 3 -> "3"
      [] d = 4 -> "4" [] d = 5 -> "5" [] d = 6 -> "6" [] d = 7 -> "7"
      [] d = 8 -> "8" [] OTHER -> "9"

RECURSIVE IntToStr(_)
IntToStr(n) ==
    IF n < 10 THEN <<DigitChar(n)>>
    ELSE IntToStr(n \div 10) \o <<DigitChar(n % 10)>>

IsSpace(c) == c \in {" ", "\t", "\n"}

\* str.strip()
RECURSIVE LStrip(_)
LStrip(s) ==
    IF s # <<>> /\ IsSpace(s[1]) THEN LStrip(Tail(s)) ELSE s

RECURSIVE RStrip(_)
RStrip(s) ==
    IF s # <<>> /\ IsSpace(s[Len(s)]) THEN RStrip(Upto(s, Len(s) - 1)) ELSE s

Strip(s) == RStrip(LStrip(s))

\* Index of the first / last occurrence of character c in s, 0 when absent.
RECURSIVE IndexFrom(_, _, _)
IndexFrom(s, c, i) ==
    IF i > Len(s) THEN 0
    ELSE IF s[i] = c THEN i
    ELSE IndexFrom(s, c, i + 1)

Index(s, c) == IndexFrom(s, c, 1)

RECURSIVE RIndexFrom(_, _, _)
RIndexFrom(s, c, i) ==
    IF i < 1 THEN 0
    ELSE IF s[i] = c THEN i
    ELSE RIndexFrom(s, c, i - 1)

RIndex(s, c) == RIndexFrom(s, c, Len(s))

\* str.split(sep): every piece between separators, empty pieces included.
RECURSIVE Split(_, _)
Split(s, sep) ==
    LET i == Index(s, sep) IN
    IF i = 0 THEN <<s>>
    ELSE <<Upto(s, i - 1)>> \o Split(From(s, i + 1), sep)

\* os.path.basename(): what follows the last "/".
Basename(p) == From(p, RIndex(p, "/") + 1)

\* os.path.splitext(p)[0]: the extension starts at the last dot, unless
\* only dots precede it.
SplitExtRoot(p) ==
    LET sep == RIndex(p, "/")
        dot == RIndex(p, ".")
    IN  IF dot > sep /\ \E j \in (sep + 1)..(dot - 1) : p[j] # "."
        THEN Upto(p, dot - 1)
        ELSE p

\* value[1:-1] when value is wrapped in a pair of equal quotes.
IsQuoted(v, q) == v # <<>> /\ v[1] = q /\ v[Len(v)] = q

Unquote(v) ==
    IF IsQuoted(v, "\"") \/ IsQuoted(v, "'")
    THEN SubSeq(v, 2, Len(v) - 1)
    ELSE v

(***************************************************************************)
(* The component registry.                                                 *)
(***************************************************************************)
None == 0

\* VB6Component.__init__
VB6Component(name, filename, component_type) ==
    [name |-> name, filename |-> filename, component_type |-> component_type,
     dependencies |-> <<>>, content |-> <<>>]

\* VB6Project.add_component: append, nothing else.
add_component(comps, name, filename, component_type) ==
    Append(comps, VB6Component(name, filename, component_type))

\* VB6Project.find_component_by_name: index of the first component whose
\* lowered name equals the lowered argument, None when the loop runs out.
FindFrom(comps, name, i) ==
    LET hits == {j \in i..Len(comps) : Lower(comps[j].name) = Lower(name)} IN
    IF hits = {} THEN None
    ELSE CHOOSE j \in hits : \A h \in hits : j <= h

\* A lookup that compares the names as written.
RECURSIVE FindExactFrom(_, _, _)
FindExactFrom(comps, name, i) ==
    IF i > Len(comps) THEN None
    ELSE IF comps[i].name = name THEN i
    ELSE FindExactFrom(comps, name, i + 1)

find_component_exact(comps, name) == FindExactFrom(comps, name, 1)

find_component_by_name(comps, name) == FindFrom(comps, name, 1)

\* add_component_from_line, the loop over parts[1:]: the first part that holds
\* "=" with a blank key overrides the name taken from the file name.
RECURSIVE NameFromParts(_, _, _)
NameFromParts(parts, i, default) ==
    IF i > Len(parts) THEN default
    ELSE LET part == parts[i]
             eq == Index(part, "=")
         IN  IF eq # 0 /\ Strip(Upto(part, eq - 1)) = <<>>
             THEN Unquote(Strip(From(part, eq + 1)))
             ELSE NameFromParts(parts, i + 1, default)

\* A suffix that counts from zero.
SuffixedFromZero(name, counter) == name \o <<"_">> \o IntToStr(counter - 1)

\* f"{component_name}_{counter}"
Suffixed(name, counter) == name \o <<"_">> \o IntToStr(counter)

\* The while loop that looks for a free suffix, starting at counter.
RECURSIVE FreeCounter(_, _, _)
FreeCounter(comps, name, counter) ==
    IF find_component_by_name(comps, Suffixed(name, counter)) # None
    THEN FreeCounter(comps, name, counter + 1)
    ELSE counter

\* A renaming that appends _1 without looking whether it is taken.
UniqueNameFirstSuffix(comps, name) ==
    IF find_component_by_name(comps, name) # None
    THEN Suffixed(name, 1)
    ELSE name

\* The name a new component gets: unchanged when free, suffixed otherwise.
UniqueName(comps, name) ==
    IF find_component_by_name(comps, name) # None
    THEN Suffixed(name, FreeCounter(comps, name, 1))
    ELSE name

\* add_component_from_line(project, file_info, component_type): the new
\* value of project.components.
add_component_from_line(comps, file_info, component_type) ==
    LET parts == Split(file_info, ";")
        filename == Strip(parts[1])
        component_name ==
            NameFromParts(parts, 2, SplitExtRoot(Basename(filename)))
    IN  add_component(comps, UniqueName(comps, component_name),
                      filename, component_type)

(***************************************************************************)
(* Inputs: manifest entries (the text after "Form=", "Module=", ...) and   *)
(* the names looked up.                                                    *)
(***************************************************************************)
ComponentTypes ==
    {"Form", "Module", "Class", "UserControl", "PropertyPage", "Designer"}

RegistryEntries ==
    { <<<<"a", ".", "f", "r", "m">>, "Form">>,
      <<<<"A", ".", "f", "r", "m">>, "UserControl">>,
      <<<<"a", "_", "1", ".", "f", "r", "m">>, "Designer">>,
      <<<<"b", ";", " ", "b", ".", "b", "a", "s">>, "Module">>,
      <<<<"x", ".", "c", "l", "s", ";", "=", "\"", "B", "\"">>, "Class">>,
      <<<<"d", "/", "A", "_", "1", ".", "p", "a", "g">>, "PropertyPage">> }

ProbeNames ==
    { <<"a">>, <<"A">>, <<"B">>, <<"a", "_", "1">>, <<"A", "_", "2">>,
      <<"z">> }

NoCall == [op |-> "none", arg |-> <<>>, result |-> None]

\* The two ways a set is iterated here: in the order its elements were
\* first inserted, or in the opposite order.  The order is fixed for one
\* interpreter process (hash seed, object addresses) and differs between
\* processes.
HashSeeds == {"insertion", "reversed"}

\* No run of main is under way: the project is driven through its API.
NoRun == [pc |-> "idle", log |-> <<>>]

(***************************************************************************)
(* The graph query layer.                                                  *)
(***************************************************************************)
\* "name in dependencies": list membership by string equality.
InList(name, list) == \E k \in 1..Len(list) : list[k] = name

\* get_dependents: the components, in registry order, whose dependencies
\* list holds component.name.  Components are told apart by position.
DependentsFrom(comps, c, i) ==
    SelectSeq([j \in 1..(Len(comps) + 1 - i) |-> j + i - 1],
              LAMBDA other : InList(comps[c].name, comps[other].dependencies))

\* A query that leaves the component itself out, as has_dependents does.
RECURSIVE DependentsAmongOthersFrom(_, _, _)
DependentsAmongOthersFrom(comps, c, i) ==
    IF i > Len(comps) THEN <<>>
    ELSE (IF i # c /\ InList(comps[c].name, comps[i].dependencies)
          THEN <<i>> ELSE <<>>) \o DependentsAmongOthersFrom(comps, c, i + 1)

get_dependents_among_others(comps, c) == DependentsAmongOthersFrom(comps, c, 1)

get_dependents(comps, c) == DependentsFrom(comps, c, 1)

Reversed(s) == [i \in 1..Len(s) |-> s[Len(s) + 1 - i]]

\* The distinct elements of a list, in the order of their first occurrence.
DistinctFrom(list, i, acc) ==
    LET first == SelectSeq([j \in 1..(Len(list) + 1 - i) |-> j + i - 1],
                           LAMBDA j : /\ ~InList(list[j], acc)
                                      /\ \A h \in i..(j - 1) : list[h] # list[j])
    IN  acc \o [k \in 1..Len(first) |-> list[first[k]]]

\* A generator that stores the deduplicated list back into the component.
project_after_deduplicating(comps, op) ==
    IF op = "export"
    THEN [c \in 1..Len(comps) |->
             [comps[c] EXCEPT !.dependencies = DistinctFrom(@, 1, <<>>)]]
    ELSE comps

\* The project as a call leaves it.  The queries, the builders and the
\* generators read project.components and the components' attributes;
\* what they sort or deduplicate is a copy (sorted(), set(), a list
\* comprehension, a list of pairs), and none assigns to the project.
project_after(comps, op) == comps

(***************************************************************************)
(* The reference scanner, analyze_dependencies(project).                   *)
(***************************************************************************)
\* \w of the regular expressions: letters, digits and the underscore.
IsWordChar(c) ==
    c \notin {" ", "\t", "\n", ".", ";", "=", "\"", "'", "/", "(", ")", ","}

WordAt(text, i) == i \in 1..Len(text) /\ IsWordChar(text[i])

\* \b in front of position i.
Boundary(text, i) == WordAt(text, i - 1) # WordAt(text, i)

\* The pattern is found at position i, letter case ignored.
MatchAt(text, i, pat) ==
    /\ i >= 1
    /\ i + Len(pat) - 1 <= Len(text)
    /\ \A k \in 1..Len(pat) : LowerChar(text[i + k - 1]) = LowerChar(pat[k])

\* \s+ : the first position at or after i that holds no white space.
RECURSIVE SkipSpaces(_, _)
SkipSpaces(text, i) ==
    IF i <= Len(text) /\ IsSpace(text[i]) THEN SkipSpaces(text, i + 1) ELSE i

\* <Name>.<member> : \bName\.
DotRefAt(text, i, name) ==
    /\ Boundary(text, i)
    /\ MatchAt(text, i, name)
    /\ i + Len(name) <= Len(text)
    /\ text[i + Len(name)] = "."

\* New <Name> and As <Name> : \bkeyword\s+Name\b
KeywordRefAt(text, i, keyword, name) ==
    /\ Boundary(text, i)
    /\ MatchAt(text, i, keyword)
    /\ LET j == SkipSpaces(text, i + Len(keyword)) IN
          /\ j > i + Len(keyword)
          /\ MatchAt(text, j, name)
          /\ Boundary(text, j + Len(name))

Shapes == {"dot", "new", "as"}

\* A scanner that knows dotted access and New only.
ShapeAtWithoutAs(shape, text, i, name) ==
    CASE shape = "dot" -> DotRefAt(text, i, name)
      [] shape = "new" -> KeywordRefAt(text, i, <<"N", "e", "w">>, name)
      [] shape = "as" -> FALSE

ShapeAt(shape, text, i, name) ==
    CASE shape = "dot" -> DotRefAt(text, i, name)
      [] shape = "new" -> KeywordRefAt(text, i, <<"N", "e", "w">>, name)
      [] shape = "as" -> KeywordRefAt(text, i, <<"A", "s">>, name)

\* re.search: the shape occurs somewhere at or after position i.
RECURSIVE SearchFrom(_, _, _, _)
SearchFrom(shape, text, name, i) ==
    IF i > Len(text) THEN FALSE
    ELSE IF ShapeAt(shape, text, i, name) THEN TRUE
    ELSE SearchFrom(shape, text, name, i + 1)

Search(shape, text, name) == SearchFrom(shape, text, name, 1)

\* The names registration can produce from the manifest entries of a run,
\* and the texts a source file can hold.
BaseNames == {<<"a">>, <<"a", "b">>}

CandidateNames ==
    BaseNames \cup {Suffixed(n, k) : n \in BaseNames, k \in 1..MaxComponents}

SourceTexts ==
    { <<>>,
      <<"a", "b", ".", "x">>,
      <<"N", "e", "w", " ", "A">>,
      <<"x", " ", "A", "s", " ", "a", "b">>,
      <<"a", ".", "x", " ", "A", "s", " ", "a", "_", "1">>,
      <<"a", "b", ".", "x", " ", "N", "e", "w", " ", "A", "B", " ", " ",
        "a", "s", " ", "a">>,
      <<"z", "a", ".", "x", " ", "A", "s", " ", "a", "b", "z", " ",
        "N", "e", "w", " ", "q">> }

\* The searches over the texts and names above, made once.
SearchTable ==
    [t \in SourceTexts |->
        [sh \in Shapes |-> {n \in CandidateNames : Search(sh, t, n)}]]

\* The text refers to the name in the given shape.
Found(shape, text, name) ==
    IF text \in SourceTexts /\ name \in CandidateNames
    THEN name \in SearchTable[text][shape]
    ELSE Search(shape, text, name)

\* Candidate lists that keep the component's own name, that hold every
\* name whether registered or not, and that leave out the components
\* already depending on this one.
RECURSIVE AllNamesFrom(_, _)
AllNamesFrom(comps, i) ==
    IF i > Len(comps) THEN <<>>
    ELSE <<comps[i].name>> \o AllNamesFrom(comps, i + 1)

OtherNamesWithOwn(comps, c) == AllNamesFrom(comps, 1)

RECURSIVE SetToSeq(_)
SetToSeq(S) ==
    IF S = {} THEN <<>>
    ELSE LET x == CHOOSE y \in S : TRUE IN <<x>> \o SetToSeq(S \ {x})

OtherNamesUnregistered(comps, c) == SetToSeq(CandidateNames \ {comps[c].name})

RECURSIVE AcyclicNamesFrom(_, _, _)
AcyclicNamesFrom(comps, c, i) ==
    IF i > Len(comps) THEN <<>>
    ELSE (IF comps[i].name # comps[c].name
             /\ ~InList(comps[c].name, comps[i].dependencies)
          THEN <<comps[i].name>> ELSE <<>>) \o AcyclicNamesFrom(comps, c, i + 1)

OtherNamesAcyclic(comps, c) == AcyclicNamesFrom(comps, c, 1)

\* N: the names of the project's components without the component's own.
RECURSIVE OtherNamesFrom(_, _, _)
OtherNamesFrom(comps, c, i) ==
    IF i > Len(comps) THEN <<>>
    ELSE (IF comps[i].name # comps[c].name
          THEN <<comps[i].name>> ELSE <<>>) \o OtherNamesFrom(comps, c, i + 1)

OtherNames(comps, c) == OtherNamesFrom(comps, c, 1)

\* A referenced name appended at every match.
AppendDependency(deps, name) == Append(deps, name)

\* A referenced name joins the dependencies unless it is already there.
AddDependency(deps, name) ==
    IF InList(name, deps) THEN deps ELSE Append(deps, name)

\* One shape tried against every candidate name, from the k-th on.
RECURSIVE ScanNames(_, _, _, _, _)
ScanNames(deps, shape, text, names, k) ==
    IF k > Len(names) THEN deps
    ELSE ScanNames(IF Found(shape, text, names[k])
                   THEN AddDependency(deps, names[k]) ELSE deps,
                   shape, text, names, k + 1)

\* The shapes tried one after the other, from the s-th on.
RECURSIVE ScanShapes(_, _, _, _, _)
ScanShapes(deps, shapes, s, text, names) ==
    IF s > Len(shapes) THEN deps
    ELSE ScanShapes(ScanNames(deps, shapes[s], text, names, 1),
                    shapes, s + 1, text, names)

\* Reading a component's file: the text, or a failure when it is missing.
ReadSource(fs, filename) ==
    IF filename \in DOMAIN fs
    THEN [ok |-> TRUE, text |-> fs[filename]]
    ELSE [ok |-> FALSE, text |-> <<>>]

\* A scan that opens the file without catching the failure, and a scan
\* that extends the dependencies list it finds instead of replacing it.
ScanComponentUnguarded(comps, c, fs, shapes) ==
    LET src == ReadSource(fs, comps[c].filename) IN
    IF src.ok
    THEN [comp |-> [comps[c] EXCEPT
                       !.content = src.text,
                       !.dependencies =
                           ScanShapes(<<>>, shapes, 1, src.text,
                                      OtherNames(comps, c))],
          raised |-> FALSE]
    ELSE [comp |-> comps[c], raised |-> TRUE]

ScanComponentExtending(comps, c, fs, shapes) ==
    LET src == ReadSource(fs, comps[c].filename) IN
    IF src.ok
    THEN [comp |-> [comps[c] EXCEPT
                       !.content = src.text,
                       !.dependencies =
                           comps[c].dependencies \o
                           ScanShapes(<<>>, shapes, 1, src.text,
                                      OtherNames(comps, c))],
          raised |-> FALSE]
    ELSE [comp |-> [comps[c] EXCEPT !.content = <<>>, !.dependencies = <<>>],
          raised |-> FALSE]

\* The scan of one component: its record afterwards, and whether the scan
\* raised.  An unreadable file leaves empty content and no dependencies.
ScanComponent(comps, c, fs, shapes) ==
    LET src == ReadSource(fs, comps[c].filename) IN
    IF src.ok
    THEN [comp |-> [comps[c] EXCEPT
                       !.content = src.text,
                       !.dependencies =
                           ScanShapes(<<>>, shapes, 1, src.text,
                                      OtherNames(comps, c))],
          raised |-> FALSE]
    ELSE [comp |-> [comps[c] EXCEPT !.content = <<>>, !.dependencies = <<>>],
          raised |-> FALSE]

\* The pass over the components in the given order, from the k-th on; an
\* exception ends it.
RECURSIVE ScanPass(_, _, _, _, _)
ScanPass(acc, order, k, fs, shapes) ==
    IF k > Len(order) \/ acc.raised THEN acc
    ELSE LET r == ScanComponent(acc.comps, order[k], fs, shapes) IN
         ScanPass([comps |-> [acc.comps EXCEPT ![order[k]] = r.comp],
                   raised |-> r.raised],
                  order, k + 1, fs, shapes)

analyze_dependencies(comps, order, fs, shapes) ==
    ScanPass([comps |-> comps, raised |-> FALSE], order, 1, fs, shapes)

\* The orders in which the three shapes may be tried, and the orders in which
\* n components may be visited: registry order and its reverse, so that
\* every pair of components is scanned both ways round.
ShapeOrders ==
    {o \in [1..3 -> Shapes] : \A x, y \in 1..3 : x # y => o[x] # o[y]}

ComponentOrders(n) ==
    {[i \in 1..n |-> i], [i \in 1..n |-> n + 1 - i]}

(***************************************************************************)
(* Registration and lookup.                                                *)
(***************************************************************************)
\* One manifest line handed to add_component_from_line.
Register(entries) ==
    /\ Len(components) < MaxComponents
    /\ scans = 0
    /\ \E e \in entries :
          components' = add_component_from_line(components, e[1], e[2])
    /\ call' = NoCall
    /\ UNCHANGED <<files, scans, raised, hashseed, run>>

\* project.find_component_by_name(n)
FindComponentByName ==
    /\ \E n \in ProbeNames :
          call' = [op |-> "find", arg |-> n,
                   result |-> find_component_by_name(components, n)]
    /\ components' = project_after(components, "find")
    /\ UNCHANGED <<files, scans, raised, hashseed, run>>

\* get_dependents(project, component)
GetDependents ==
    /\ \E c \in 1..Len(components) :
          call' = [op |-> "dependents", arg |-> c,
                   result |-> get_dependents(components, c)]
    /\ components' = project_after(components, "dependents")
    /\ UNCHANGED <<files, scans, raised, hashseed, run>>

InitRegistry ==
    /\ components = <<>>
    /\ files = <<>>
    /\ scans = 0
    /\ raised = FALSE
    /\ call = NoCall
    /\ hashseed = "insertion"
    /\ run = NoRun

RegisterManifestLine == Register(RegistryEntries)

NextRegistry == RegisterManifestLine \/ FindComponentByName

SpecRegistry == InitRegistry /\ [][NextRegistry]_vars

(***************************************************************************)
(* A project assembled by hand, as the generator tests do: components      *)
(* added with add_component and dependencies lists assigned directly.      *)
(***************************************************************************)
FixtureComponents ==
    { <<<<"a">>, <<"a", ".", "f", "r", "m">>, "Form">>,
      <<<<"A">>, <<"A", ".", "c", "l", "s">>, "Class">>,
      <<<<"b">>, <<"b", ".", "b", "a", "s">>, "Module">> }

FixtureDependencies ==
    { <<>>, <<<<"a">>, <<"a">>>>, <<<<"A">>, <<"z">>>> }

\* project.add_component(name, filename, type)
AddComponent ==
    /\ Len(components) < MaxComponents
    /\ \E f \in FixtureComponents :
          components' = add_component(components, f[1], f[2], f[3])
    /\ call' = NoCall
    /\ UNCHANGED <<files, scans, raised, hashseed, run>>

\* component.dependencies = [...]
SetDependencies ==
    /\ \E c \in 1..Len(components), d \in FixtureDependencies :
          components' = [components EXCEPT ![c].dependencies = d]
    /\ call' = NoCall
    /\ UNCHANGED <<files, scans, raised, hashseed, run>>

NextFixture ==
    AddComponent \/ SetDependencies \/ FindComponentByName \/ GetDependents

SpecFixture == InitRegistry /\ [][NextFixture]_vars

(***************************************************************************)
(* The run of main: the manifest is read, then the scan pass runs over     *)
(* the source files found in the project directory.                       *)
(***************************************************************************)
ScanEntries ==
    { <<<<"a", ".", "f", "r", "m">>, "Form">>,
      <<<<"a", "b", ".", "c", "l", "s">>, "Class">> }

FileNames == {e[1] : e \in ScanEntries}

\* Every directory: some of the files exist, each with one of the texts.
FileSystems == UNION {[present -> SourceTexts] : present \in SUBSET FileNames}

Init ==
    /\ components = <<>>
    /\ files \in FileSystems
    /\ scans = 0
    /\ raised = FALSE
    /\ call = NoCall
    /\ hashseed = "insertion"
    /\ run = NoRun

RegisterSource == Register(ScanEntries)

\* analyze_dependencies(project): the whole pass, in one step.
AnalyzeDependencies ==
    /\ scans < MaxScans
    /\ ~raised
    /\ \E shapes \in ShapeOrders, order \in ComponentOrders(Len(components)) :
          LET r == analyze_dependencies(components, order, files, shapes) IN
          /\ components' = r.comps
          /\ raised' = r.raised
    /\ scans' = scans + 1
    /\ UNCHANGED <<files, call, hashseed, run>>

Next == RegisterSource \/ AnalyzeDependencies

Spec == Init /\ [][Next]_vars

(***************************************************************************)
(* The projection builders (generators/diagrams/).  A builder writes node  *)
(* lines and edge lines; here it returns them as two sequences, in the     *)
(* order written.                                                          *)
(***************************************************************************)
\* for x in set(list): the elements of the set, as the interpreter yields
\* them under the given hash seed.
IterateSet(list, seed) ==
    IF seed = "insertion" THEN DistinctFrom(list, 1, <<>>)
    ELSE Reversed(DistinctFrom(list, 1, <<>>))

\* html.escape(s) on one character.
EscapeChar(c) ==
    CASE c = "&" -> <<"&", "a", "m", "p", ";">>
      [] c = "<" -> <<"&", "l", "t", ";">>
      [] c = ">" -> <<"&", "g", "t", ";">>
      [] c = "\"" -> <<"&", "q", "u", "o", "t", ";">>
      [] c = "'" -> <<"&", "#", "x", "2", "7", ";">>
      [] OTHER -> <<c>>

RECURSIVE HtmlEscape(_)
HtmlEscape(s) ==
    IF s = <<>> THEN <<>> ELSE EscapeChar(Head(s)) \o HtmlEscape(Tail(s))

\* str.replace('\\', '\\\\').replace('"', '\\"') after html.escape.
RECURSIVE EscapeBackslashes(_)
EscapeBackslashes(s) ==
    IF s = <<>> THEN <<>>
    ELSE (CASE Head(s) = "\\" -> <<"\\", "\\">>
            [] Head(s) = "\"" -> <<"\\", "\"">>
            [] OTHER -> <<Head(s)>>) \o EscapeBackslashes(Tail(s))

safe_name(name) == EscapeBackslashes(HtmlEscape(name))

\* component_type.lower()
TypeLower(t) ==
    CASE t = "Form" -> "form"
      [] t = "Module" -> "module"
      [] t = "Class" -> "class"
      [] t = "UserControl" -> "usercontrol"
      [] t = "PropertyPage" -> "propertypage"
      [] t = "Designer" -> "designer"

\* An identifier made of the index alone.
NodeIdWithoutPrefix(prefix, i) == IntToStr(i)

\* f"{prefix}{i}"
NodeId(prefix, i) == prefix \o IntToStr(i)

\* f"{source_id}->{target_id}"
EdgeKey(source_id, target_id) == source_id \o <<"-", ">">> \o target_id

NoEdges == [written |-> <<>>, edges_added |-> {}]

\* A builder that writes an edge whenever it meets it.
EdgeIsAlwaysNew(edge_key, edges_added) == TRUE

\* if edge_key not in edges_added
EdgeIsNew(edge_key, edges_added) == edge_key \notin edges_added

\* The inner loop of a builder: for dep in set(component.dependencies),
\* resolve dep and write the edge unless its key was written before.
\* accept is the set of components the builder takes as a target.  held
\* is what the pass holds once entry k is done: the loop goes on from its
\* value.
RECURSIVE DependencyEdges(_, _, _, _, _, _, _)
DependencyEdges(comps, deps, k, source_id, node_ids, accept, acc) ==
    IF k > Len(deps) THEN acc
    ELSE
        LET dep_comp == find_component_by_name(comps, deps[k])
            drawn == /\ dep_comp # None
                     /\ dep_comp \in accept
                     /\ comps[dep_comp].name \in DOMAIN node_ids
            target_id == node_ids[comps[dep_comp].name]
            edge_key == EdgeKey(source_id, target_id)
            after == IF drawn /\ EdgeIsNew(edge_key, acc.edges_added)
                     THEN [written |-> Append(acc.written, <<source_id, target_id>>),
                           edges_added |-> acc.edges_added \cup {edge_key}]
                     ELSE acc
        IN  CHOOSE result \in
                {DependencyEdges(comps, deps, k + 1, source_id, node_ids, accept,
                                 held) : held \in {after}} : TRUE

\* The outer loop: for component in sources, if component.name in node_ids.
\* held is what the pass holds once component s is done.
RECURSIVE ComponentEdges(_, _, _, _, _, _, _)
ComponentEdges(comps, sources, s, node_ids, accept, seed, acc) ==
    IF s > Len(sources) THEN acc
    ELSE
        LET c == sources[s]
            after == IF comps[c].name \in DOMAIN node_ids
                     THEN DependencyEdges(comps,
                              IterateSet(comps[c].dependencies, seed),
                              1, node_ids[comps[c].name], node_ids, accept, acc)
                     ELSE acc
        IN  CHOOSE result \in
                {ComponentEdges(comps, sources, s + 1, node_ids, accept, seed,
                                held) : held \in {after}} : TRUE

\* node_ids[component.name] = f"{prefix}{i}" for i, component in
\* enumerate(rendered): a later component of the same name takes the key.
NodeIdsFrom(comps, rendered, prefix, k, node_ids) ==
    LET names == {comps[rendered[j]].name : j \in k..Len(rendered)}
        last(n) == CHOOSE j \in k..Len(rendered) :
                       /\ comps[rendered[j]].name = n
                       /\ \A h \in (j + 1)..Len(rendered) :
                              comps[rendered[h]].name # n
    IN  [n \in names |-> NodeId(prefix, last(n) - 1)] @@ node_ids

\* [comp for comp in project.components if comp.component_type == t]
OfType(comps, t) ==
    SelectSeq([i \in 1..Len(comps) |-> i], LAMBDA i : comps[i].component_type = t)

AllOf(comps) == 1..Len(comps)

(***************************************************************************)
(* generate_core_architecture_diagram                                      *)
(***************************************************************************)
MAX_COMPONENTS == 20

\* len(get_dependents(project, comp)) + len(set(comp.dependencies))
Connectivity(comps, c) ==
    Len(get_dependents(comps, c)) + Cardinality(Range(comps[c].dependencies))

\* A sort that puts a component before the earlier ones it ties with.
InsertBeforeTies(sorted, e) ==
    LET p == Cardinality({i \in 1..Len(sorted) : sorted[i][2] > e[2]}) IN
    SubSeq(sorted, 1, p) \o <<e>> \o SubSeq(sorted, p + 1, Len(sorted))

\* list.sort(key=lambda x: x[1], reverse=True) is stable: taking the
\* elements in list order, each goes behind those whose key is as large.
InsertRanked(sorted, e) ==
    LET p == Cardinality({i \in 1..Len(sorted) : sorted[i][2] >= e[2]}) IN
    SubSeq(sorted, 1, p) \o <<e>> \o SubSeq(sorted, p + 1, Len(sorted))

\* sorted holds the first i - 1 elements of list, in rank order.
RECURSIVE SortFrom(_, _, _)
SortFrom(list, i, sorted) ==
    IF Len(sorted) = Len(list) THEN sorted
    ELSE SortFrom(list, i + 1, InsertRanked(sorted, list[i]))

\* components_to_render: component_connections, sorted, cut at the limit.
components_to_render(comps) ==
    LET component_connections ==
            [c \in 1..Len(comps) |-> <<c, Connectivity(comps, c)>>]
        sorted == SortFrom(component_connections, 1, <<>>)
        n == IF Len(sorted) < MAX_COMPONENTS THEN Len(sorted) ELSE MAX_COMPONENTS
    IN  [i \in 1..n |-> sorted[i][1]]

CoreNodeClass(t) == IF TypeLower(t) = "class" THEN "cls" ELSE TypeLower(t)

Core == <<"c", "o", "r", "e">>

\* A builder that keys every ranked component, not only those it renders.
CoreNodeIdsOfAll(comps, rendered) ==
    NodeIdsFrom(comps, rendered \o SelectSeq([i \in 1..Len(comps) |-> i],
                                      LAMBDA i : ~InList(i, rendered)),
                Core, 1, <<>>)

CoreNodeIds(comps, rendered) == NodeIdsFrom(comps, rendered, Core, 1, <<>>)

CoreEdges(comps, rendered, node_ids, seed) ==
    ComponentEdges(comps, rendered, 1, node_ids, AllOf(comps), seed,
                   NoEdges).written

generate_core_architecture_diagram(comps, seed) ==
    LET rendered == components_to_render(comps)
        node_ids == CoreNodeIds(comps, rendered)
    IN  [nodes |-> [i \in 1..Len(rendered) |->
                       [id |-> NodeId(Core, i - 1),
                        component |-> rendered[i],
                        label |-> safe_name(comps[rendered[i]].name),
                        class |-> CoreNodeClass(comps[rendered[i]].component_type)]],
         edges |-> CoreEdges(comps, rendered, node_ids, seed)]

(***************************************************************************)
(* generate_form_relationships_diagram                                     *)
(***************************************************************************)
FormPrefix == <<"f", "o", "r", "m">>

\* A builder that shows only the forms that list a dependency.
FormsWithDependencies(comps) ==
    SelectSeq(OfType(comps, "Form"), LAMBDA i : comps[i].dependencies # <<>>)

Forms(comps) == OfType(comps, "Form")

generate_form_relationships_diagram(comps, seed) ==
    LET forms == Forms(comps)
        node_ids == NodeIdsFrom(comps, forms, FormPrefix, 1, <<>>)
    IN  [nodes |-> [i \in 1..Len(forms) |->
                       [id |-> NodeId(FormPrefix, i - 1),
                        component |-> forms[i],
                        label |-> safe_name(comps[forms[i]].name),
                        class |-> ""]],
         edges |-> ComponentEdges(comps, forms, 1, node_ids, Range(forms),
                                  seed, NoEdges).written]

(***************************************************************************)
(* generate_business_logic_diagram                                         *)
(***************************************************************************)
ClassPrefix == <<"c", "l", "a", "s", "s">>
RelatedPrefix == <<"r", "e", "l", "a", "t", "e", "d">>

\* related_components.add(comp), for the candidates in turn.
RECURSIVE AddAll(_, _, _)
AddAll(related, candidates, k) ==
    IF k > Len(candidates) THEN related
    ELSE AddAll(IF InList(candidates[k], related) THEN related
                ELSE Append(related, candidates[k]),
                candidates, k + 1)

\* The components a class depends on that are not classes.
RECURSIVE DependenciesOfClass(_, _, _)
DependenciesOfClass(comps, deps, k) ==
    IF k > Len(deps) THEN <<>>
    ELSE
        LET dep_comp == find_component_by_name(comps, deps[k]) IN
        (IF dep_comp # None /\ comps[dep_comp].component_type # "Class"
         THEN <<dep_comp>> ELSE <<>>)
        \o DependenciesOfClass(comps, deps, k + 1)

\* A builder that matches the class name in any letter case.
DependentsOfClassAnyCase(comps, cls) ==
    SelectSeq([i \in 1..Len(comps) |-> i],
              LAMBDA i : /\ comps[i].component_type # "Class"
                         /\ InList(Lower(comps[cls].name),
                                   [k \in 1..Len(comps[i].dependencies) |->
                                       Lower(comps[i].dependencies[k])]))

\* The components that depend on a class and are not classes.
DependentsOfClass(comps, cls) ==
    SelectSeq([i \in 1..Len(comps) |-> i],
              LAMBDA i : /\ comps[i].component_type # "Class"
                         /\ InList(comps[cls].name, comps[i].dependencies))

\* related_components, in the order the components were added to the set.
RECURSIVE RelatedFrom(_, _, _, _, _)
RelatedFrom(comps, classes, k, seed, related) ==
    IF k > Len(classes) THEN related
    ELSE
        LET cls == classes[k]
            deps == IterateSet(comps[cls].dependencies, seed)
            with_dependencies ==
                AddAll(related, DependenciesOfClass(comps, deps, 1), 1)
        IN  RelatedFrom(comps, classes, k + 1, seed,
                        AddAll(with_dependencies, DependentsOfClass(comps, cls), 1))

\* for comp in related_components: a set of objects, iterated as the
\* interpreter orders them.
IterateObjects(related, seed) ==
    IF seed = "insertion" THEN related ELSE Reversed(related)

\* The nodes of the related components: enumerate counts every element,
\* one whose name is already a key is given no node.
RECURSIVE RelatedNodes(_, _, _, _)
RelatedNodes(comps, related, k, acc) ==
    IF k > Len(related) THEN acc
    ELSE
        LET comp == related[k]
            node_id == NodeId(RelatedPrefix, k - 1)
            node_class == IF comps[comp].component_type = "Class" THEN "cls"
                          ELSE TypeLower(comps[comp].component_type)
        IN  RelatedNodes(comps, related, k + 1,
                IF comps[comp].name \notin DOMAIN acc.node_ids
                THEN [node_ids |-> (comps[comp].name :> node_id) @@ acc.node_ids,
                      nodes |-> Append(acc.nodes,
                                  [id |-> node_id,
                                   component |-> comp,
                                   label |-> safe_name(comps[comp].name),
                                   class |-> node_class])]
                ELSE acc)

\* A builder that lets a related component point at any node.
RelatedTargetsAny(comps) == AllOf(comps)

\* The targets of a related component's edges: classes only.
RelatedTargets(comps) == Range(OfType(comps, "Class"))

generate_business_logic_diagram(comps, seed) ==
    LET classes == OfType(comps, "Class")
        class_nodes == [i \in 1..Len(classes) |->
                           [id |-> NodeId(ClassPrefix, i - 1),
                            component |-> classes[i],
                            label |-> safe_name(comps[classes[i]].name),
                            class |-> ""]]
        related == IterateObjects(RelatedFrom(comps, classes, 1, seed, <<>>), seed)
        all == RelatedNodes(comps, related, 1,
                   [node_ids |-> NodeIdsFrom(comps, classes, ClassPrefix, 1, <<>>),
                    nodes |-> class_nodes])
        class_edges == ComponentEdges(comps, classes, 1, all.node_ids,
                                      AllOf(comps), seed, NoEdges)
    IN  [nodes |-> all.nodes,
         edges |-> ComponentEdges(comps, related, 1, all.node_ids,
                                  RelatedTargets(comps), seed, class_edges).written]

(***************************************************************************)
(* The other queries of the graph query layer (utils/helpers.py).          *)
(***************************************************************************)
count_components_by_type(comps, t) ==
    Cardinality({i \in 1..Len(comps) : comps[i].component_type = t})

has_dependents(comps, c) ==
    \E other \in 1..Len(comps) :
        other # c /\ InList(comps[c].name, comps[other].dependencies)

(***************************************************************************)
(* export_json (generators/json_generator.py): the exported data.          *)
(***************************************************************************)
NamesOf(comps, cs) == [k \in 1..Len(cs) |-> comps[cs[k]].name]

\* An export that writes the dependencies list as it is kept.
ExportedDependenciesAsKept(deps, seed) == deps

\* list(set(comp.dependencies))
ExportedDependencies(deps, seed) == IterateSet(deps, seed)

\* An export that counts the entries of the dependencies list.
DependencyCountOfEntries(deps) == Len(deps)

\* len(set(comp.dependencies))
DependencyCount(deps) == Cardinality(Range(deps))

export_data(comps, seed) ==
    [components |->
        [c \in 1..Len(comps) |->
            LET dependents == NamesOf(comps, get_dependents(comps, c)) IN
            [name |-> comps[c].name,
             type |-> comps[c].component_type,
             filename |-> comps[c].filename,
             dependencies |-> ExportedDependencies(comps[c].dependencies, seed),
             dependents |-> dependents,
             dependency_count |-> DependencyCount(comps[c].dependencies),
             dependent_count |-> Len(dependents)]],
     statistics |->
        [total_components |-> Len(comps),
         forms |-> count_components_by_type(comps, "Form"),
         modules |-> count_components_by_type(comps, "Module"),
         classes |-> count_components_by_type(comps, "Class"),
         user_controls |-> count_components_by_type(comps, "UserControl"),
         property_pages |-> count_components_by_type(comps, "PropertyPage"),
         designers |-> count_components_by_type(comps, "Designer")]]

(***************************************************************************)
(* Where a generator writes.  test_mode and con (the path contains "CON")  *)
(* are read by export_json alone; dir says whether the output directory    *)
(* exists or can be made; file says whether the output file can be opened  *)
(* and written to its end.                                                 *)
(***************************************************************************)
Targets ==
    [test_mode : BOOLEAN, con : BOOLEAN,
     dir : {"exists", "creatable", "uncreatable"},
     file : {"writable", "unopenable", "fails_midway"}]

Target(writable) ==
    [test_mode |-> FALSE, con |-> FALSE, dir |-> "exists",
     file |-> IF writable THEN "writable" ELSE "unopenable"]

\* The two targets of the generator tests: a temporary file, and a file
\* whose opening raises IOError.
TestTargets == {Target(TRUE), Target(FALSE)}

\* What a generator call leaves: its return value, whether an exception
\* left it, the state of the output file, and the content written.
Returned(ok, file, content) ==
    [ok |-> ok, raised |-> FALSE, file |-> file, written |-> content]
Raised(file) ==
    [ok |-> FALSE, raised |-> TRUE, file |-> file, written |-> None]

\* with open(output_file, 'w') as f: ... : the state of the file afterwards.
OpenAndWrite(target) ==
    CASE target.file = "writable" -> "complete"
      [] target.file = "unopenable" -> "untouched"
      [] target.file = "fails_midway" -> "partial"

\* An export whose write is outside any try block.
export_json_unguarded(comps, seed, target) ==
    IF target.test_mode /\ target.con THEN Returned(FALSE, "untouched", None)
    ELSE IF target.dir = "uncreatable" THEN Returned(FALSE, "untouched", None)
    ELSE IF OpenAndWrite(target) = "complete"
         THEN Returned(TRUE, "complete", export_data(comps, seed))
         ELSE Raised(OpenAndWrite(target))

\* export_json(project, output_file, test_mode): False before anything is
\* written in test mode with CON in the path, False when the directory
\* cannot be made, False when opening or writing the file raises, True
\* after the with block.
export_json(comps, seed, target) ==
    IF target.test_mode /\ target.con THEN Returned(FALSE, "untouched", None)
    ELSE IF target.dir = "uncreatable" THEN Returned(FALSE, "untouched", None)
    ELSE IF OpenAndWrite(target) = "complete"
         THEN Returned(TRUE, "complete", export_data(comps, seed))
         ELSE Returned(FALSE, OpenAndWrite(target), None)

(***************************************************************************)
(* generate_html_report (generators/html_generator.py): the summary table, *)
(* the names written by each section, and the three diagrams.  A section   *)
(* is kept as the set of the strings it writes for names; the order in     *)
(* which it writes them (sorted by name) is not kept.                      *)
(***************************************************************************)
\* sub in s
Contains(s, sub) ==
    \E i \in 1..(Len(s) - Len(sub) + 1) : SubSeq(s, i, i + Len(sub) - 1) = sub

\* s.replace(old, new)
RECURSIVE Replace(_, _, _)
Replace(s, old, new) ==
    IF Len(s) < Len(old) THEN s
    ELSE IF Upto(s, Len(old)) = old
         THEN new \o Replace(From(s, Len(old) + 1), old, new)
         ELSE <<Head(s)>> \o Replace(Tail(s), old, new)

\* json.dumps(s, ensure_ascii=False) of a string without control
\* characters: quoted, with the quote and the backslash escaped.
RECURSIVE JsonEscape(_)
JsonEscape(s) ==
    IF s = <<>> THEN <<>>
    ELSE (CASE Head(s) = "\\" -> <<"\\", "\\">>
            [] Head(s) = "\"" -> <<"\\", "\"">>
            [] OTHER -> <<Head(s)>>) \o JsonEscape(Tail(s))

JsonString(s) == <<"\"">> \o JsonEscape(s) \o <<"\"">>

ScriptOpen == <<"<", "s", "c", "r", "i", "p", "t", ">">>
ScriptClose == <<"<", "/", "s", "c", "r", "i", "p", "t", ">">>
EscapedScriptOpen == HtmlEscape(ScriptOpen)
EscapedScriptClose == HtmlEscape(ScriptClose)

\* safe_project_data.replace("<script>", "&lt;script&gt;")
\*                  .replace("</script>", "&lt;/script&gt;")
ScriptText(text) ==
    Replace(Replace(text, ScriptOpen, EscapedScriptOpen),
            ScriptClose, EscapedScriptClose)

\* Every name a component entry carries: its own, those in its
\* dependencies list, those of its dependents.
NamesAround(comps, c) ==
    {comps[c].name} \cup Range(comps[c].dependencies)
        \cup Range(NamesOf(comps, get_dependents(comps, c)))

\* write_component_details: the component list, and per component the
\* heading, the dependencies and the dependents.
component_details(comps) ==
    {HtmlEscape(n) : n \in UNION {NamesAround(comps, c) : c \in 1..Len(comps)}}

\* write_dependency_table: per row the name, the dependencies, the
\* dependents.
dependency_table(comps) ==
    {HtmlEscape(n) : n \in UNION {NamesAround(comps, c) : c \in 1..Len(comps)}}

\* The options of the focus-mode dropdown.
focus_options(comps) == {HtmlEscape(comps[c].name) : c \in 1..Len(comps)}

\* add_visualization_scripts: the strings of const projectData = {...}.
\* The two replacements act on the whole JSON text; no occurrence of
\* either tag spans two JSON strings, since neither tag holds a quote.
project_data(comps) ==
    {ScriptText(JsonString(n)) :
        n \in UNION {NamesAround(comps, c) : c \in 1..Len(comps)}}

html_report(comps, seed) ==
    [summary |-> [t \in ComponentTypes |-> count_components_by_type(comps, t)],
     total |-> Len(comps),
     component_details |-> component_details(comps),
     dependency_table |-> dependency_table(comps),
     core |-> generate_core_architecture_diagram(comps, seed),
     forms |-> generate_form_relationships_diagram(comps, seed),
     business |-> generate_business_logic_diagram(comps, seed),
     focus_options |-> focus_options(comps),
     project_data |-> project_data(comps)]

\* generate_html_report(project, output_file): the whole body is in one try
\* block; False when the directory cannot be made or anything raises, True
\* after the with block.
generate_html_report(comps, seed, target) ==
    IF target.dir = "uncreatable" THEN Returned(FALSE, "untouched", None)
    ELSE IF OpenAndWrite(target) = "complete"
         THEN Returned(TRUE, "complete", html_report(comps, seed))
         ELSE Returned(FALSE, OpenAndWrite(target), None)

(***************************************************************************)
(* A project larger than the core view: modules registered from one        *)
(* manifest entry, so that the registry names them b, b_1, b_2, ...; the   *)
(* first and the last two of them are given dependencies.                  *)
(***************************************************************************)
CoreEntry == <<"b", ".", "b", "a", "s">>

CoreName(i) == IF i = 1 THEN <<"b">> ELSE Suffixed(<<"b">>, i - 1)

\* The lists given: the names of the first MAX_COMPONENTS modules, and the
\* first module's name in capitals, twice.
CoreDependencies ==
    { [i \in 1..MAX_COMPONENTS |-> CoreName(i)], << <<"B">>, <<"B">> >> }

CoreHot == {1, CoreSize - 1, CoreSize}

InitCore ==
    /\ components = <<>>
    /\ files = <<>>
    /\ scans = 0
    /\ raised = FALSE
    /\ call = NoCall
    /\ hashseed \in HashSeeds
    /\ run = NoRun

RegisterModule ==
    /\ Len(components) < CoreSize
    /\ components' = add_component_from_line(components, CoreEntry, "Module")
    /\ call' = NoCall
    /\ UNCHANGED <<files, scans, raised, hashseed, run>>

SetCoreDependencies ==
    /\ \E c \in CoreHot \cap (1..Len(components)), d \in CoreDependencies :
          components' = [components EXCEPT ![c].dependencies = d]
    /\ call' = NoCall
    /\ UNCHANGED <<files, scans, raised, hashseed, run>>

CoreDiagram ==
    /\ call' = [op |-> "core", arg |-> <<>>,
                result |-> generate_core_architecture_diagram(components, hashseed)]
    /\ components' = project_after(components, "core")
    /\ UNCHANGED <<files, scans, raised, hashseed, run>>

NextCore == RegisterModule \/ SetCoreDependencies \/ CoreDiagram

SpecCore == InitCore /\ [][NextCore]_vars

(***************************************************************************)
(* A project of forms and classes, registered from the manifest            *)
(* and given dependencies lists by hand, as the generator tests do; the    *)
(* queries, the builders and the two generators are then called on it.     *)
(***************************************************************************)
ViewEntries ==
    { <<<<"a", ".", "f", "r", "m">>, "Form">>,
      <<<<"b", ".", "c", "l", "s">>, "Class">> }

\* A class, a form, an unknown name, the class again in capitals and once
\* more; and two forms and the class in capitals.
ViewDependencies ==
    { << <<"b">>, <<"a", "_", "1">>, <<"q">>, <<"B">>, <<"b">> >>,
      << <<"a", "_", "1">>, <<"a">>, <<"B">> >> }

\* The types counted: one that is registered and one that is not.
CountedTypes == {"Form", "Module"}

InitViews ==
    /\ components = <<>>
    /\ files = <<>>
    /\ scans = 0
    /\ raised = FALSE
    /\ call = NoCall
    /\ hashseed \in HashSeeds
    /\ run = NoRun

RegisterView == Register(ViewEntries)

SetViewDependencies ==
    /\ \E c \in 1..Len(components), d \in ViewDependencies :
          components' = [components EXCEPT ![c].dependencies = d]
    /\ call' = NoCall
    /\ UNCHANGED <<files, scans, raised, hashseed, run>>

HasDependents ==
    /\ \E c \in 1..Len(components) :
          call' = [op |-> "has_dependents", arg |-> c,
                   result |-> has_dependents(components, c)]
    /\ components' = project_after(components, "has_dependents")
    /\ UNCHANGED <<files, scans, raised, hashseed, run>>

CountComponentsByType ==
    /\ \E t \in CountedTypes :
          call' = [op |-> "count", arg |-> t,
                   result |-> count_components_by_type(components, t)]
    /\ components' = project_after(components, "count")
    /\ UNCHANGED <<files, scans, raised, hashseed, run>>

FormDiagram ==
    /\ call' = [op |-> "forms", arg |-> <<>>,
                result |-> generate_form_relationships_diagram(components, hashseed)]
    /\ components' = project_after(components, "forms")
    /\ UNCHANGED <<files, scans, raised, hashseed, run>>

BusinessLogicDiagram ==
    /\ call' = [op |-> "business", arg |-> <<>>,
                result |-> generate_business_logic_diagram(components, hashseed)]
    /\ components' = project_after(components, "business")
    /\ UNCHANGED <<files, scans, raised, hashseed, run>>

ExportJson ==
    /\ \E target \in TestTargets :
          call' = [op |-> "export", arg |-> target,
                   result |-> export_json(components, hashseed, target)]
    /\ components' = project_after(components, "export")
    /\ UNCHANGED <<files, scans, raised, hashseed, run>>

HtmlReport ==
    /\ \E target \in TestTargets :
          call' = [op |-> "html", arg |-> target,
                   result |-> generate_html_report(components, hashseed, target)]
    /\ components' = project_after(components, "html")
    /\ UNCHANGED <<files, scans, raised, hashseed, run>>

NextViews ==
    \/ RegisterView \/ SetViewDependencies
    \/ GetDependents \/ HasDependents \/ CountComponentsByType
    \/ CoreDiagram \/ FormDiagram \/ BusinessLogicDiagram
    \/ ExportJson \/ HtmlReport

SpecViews == InitViews /\ [][NextViews]_vars

\* The same project with the three builders alone, and with the export alone.
NextDiagrams ==
    \/ RegisterView \/ SetViewDependencies
    \/ CoreDiagram \/ FormDiagram \/ BusinessLogicDiagram

SpecDiagrams == InitViews /\ [][NextDiagrams]_vars

NextExport == RegisterView \/ SetViewDependencies \/ ExportJson

SpecExport == InitViews /\ [][NextExport]_vars

\* The two generators called on every kind of target, for the projects as
\* registered.
ExportJsonTo ==
    /\ \E target \in Targets :
          call' = [op |-> "export", arg |-> target,
                   result |-> export_json(components, hashseed, target)]
    /\ components' = project_after(components, "export")
    /\ UNCHANGED <<files, scans, raised, hashseed, run>>

HtmlReportTo ==
    /\ \E target \in Targets :
          call' = [op |-> "html", arg |-> target,
                   result |-> generate_html_report(components, hashseed, target)]
    /\ components' = project_after(components, "html")
    /\ UNCHANGED <<files, scans, raised, hashseed, run>>

NextGenerators == RegisterView \/ ExportJsonTo \/ HtmlReportTo

SpecGenerators == InitViews /\ [][NextGenerators]_vars

(***************************************************************************)
(* Projects whose component names hold markup, built as                    *)
(* test_html_escaping builds its project: project.add_component with a     *)
(* name taken as it is.                                                    *)
(***************************************************************************)
MarkupComponents ==
    { <<<<"<", "b", ">">>, <<"b", ".", "f", "r", "m">>, "Form">>,
      <<<<"a", "'">>, <<"a", ".", "c", "l", "s">>, "Class">>,
      <<ScriptOpen, <<"s", ".", "b", "a", "s">>, "Module">> }

MarkupDependencies == { <<<<"<", "b", ">">>, <<"a", "\"">>>> }

AddMarkupComponent ==
    /\ Len(components) < MaxComponents
    /\ \E f \in MarkupComponents :
          components' = add_component(components, f[1], f[2], f[3])
    /\ call' = NoCall
    /\ UNCHANGED <<files, scans, raised, hashseed, run>>

SetMarkupDependencies ==
    /\ \E c \in 1..Len(components), d \in MarkupDependencies :
          components' = [components EXCEPT ![c].dependencies = d]
    /\ call' = NoCall
    /\ UNCHANGED <<files, scans, raised, hashseed, run>>

NextReport == AddMarkupComponent \/ SetMarkupDependencies \/ HtmlReport

SpecReport == InitViews /\ [][NextReport]_vars

(***************************************************************************)
(* parse_vbp_file, line by line (parsers/vbp_parser.py): a line is         *)
(* stripped, and what it starts with decides what is done with it.         *)
(***************************************************************************)
\* line.startswith(prefix)
StartsWith(line, prefix) ==
    Len(line) >= Len(prefix) /\ Upto(line, Len(prefix)) = prefix

\* The component lines, in the order in which the parser tries them.
LineTypes == <<"Form", "Module", "Class", "UserControl", "PropertyPage", "Designer">>

LinePrefix(t) ==
    CASE t = "Form" -> <<"F", "o", "r", "m", "=">>
      [] t = "Module" -> <<"M", "o", "d", "u", "l", "e", "=">>
      [] t = "Class" -> <<"C", "l", "a", "s", "s", "=">>
      [] t = "UserControl" -> <<"U", "s", "e", "r", "C", "o", "n", "t", "r", "o", "l", "=">>
      [] t = "PropertyPage" -> <<"P", "r", "o", "p", "e", "r", "t", "y", "P", "a", "g", "e", "=">>
      [] t = "Designer" -> <<"D", "e", "s", "i", "g", "n", "e", "r", "=">>
      [] OTHER -> <<>>

\* The type of the component a stripped line declares, "" when it is not a
\* component line (Name=, Reference=, anything else).
RECURSIVE LineTypeFrom(_, _)
LineTypeFrom(line, k) ==
    IF k > Len(LineTypes) THEN ""
    ELSE IF StartsWith(line, LinePrefix(LineTypes[k])) THEN LineTypes[k]
    ELSE LineTypeFrom(line, k + 1)

LineType(line) == LineTypeFrom(line, 1)

\* What add_component_from_line returns: True when file_info.split(';')
\* has at least one part, which it always has.
add_component_from_line_result(file_info) == Len(Split(file_info, ";")) >= 1

\* A parser that takes no component line without a file name.
parse_line_requiring_file(comps, raw) ==
    LET line == Strip(raw)
        t == LineType(line)
        file_info == From(line, Len(LinePrefix(t)) + 1)
    IN  IF line = <<>> \/ t = "" \/ file_info = <<>>
        THEN [components |-> comps, result |-> FALSE]
        ELSE [components |-> add_component_from_line(comps, file_info, t),
              result |-> add_component_from_line_result(file_info)]

\* The body of "for line in file": line = line.strip(); an empty line is
\* skipped; a component line goes to add_component_from_line with what
\* follows the prefix; any other line registers nothing.  result is the
\* value add_component_from_line returned, False when it was not called.
parse_line(comps, raw) ==
    LET line == Strip(raw)
        t == LineType(line)
        file_info == From(line, Len(LinePrefix(t)) + 1)
    IN  IF line = <<>> \/ t = "" THEN [components |-> comps, result |-> FALSE]
        ELSE [components |-> add_component_from_line(comps, file_info, t),
              result |-> add_component_from_line_result(file_info)]

\* The lines of a manifest: one of each component type, a component line
\* behind a blank, one without a file name, and lines that declare no
\* component.
ManifestLines ==
    { <<"F", "o", "r", "m", "=", "a", ".", "f", "r", "m">>,
      <<"M", "o", "d", "u", "l", "e", "=", "a", ".", "b", "a", "s">>,
      <<"C", "l", "a", "s", "s", "=", "A", ".", "c", "l", "s">>,
      <<"U", "s", "e", "r", "C", "o", "n", "t", "r", "o", "l", "=", "b", ".", "c", "t", "l">>,
      <<"P", "r", "o", "p", "e", "r", "t", "y", "P", "a", "g", "e", "=", "b", ".", "p", "a", "g">>,
      <<"D", "e", "s", "i", "g", "n", "e", "r", "=", "c", ".", "d", "s", "r">>,
      <<" ", "F", "o", "r", "m", "=", "b", ".", "f", "r", "m", "\n">>,
      <<"F", "o", "r", "m", "=">>,
      <<"N", "a", "m", "e", "=", "a">>,
      <<"R", "e", "f", "e", "r", "e", "n", "c", "e", "=", "a">>,
      <<>>,
      <<"f", "o", "r", "m", "=", "a", ".", "f", "r", "m">>,
      <<"O", "b", "j", "e", "c", "t", "=", "a", ".", "o", "c", "x">> }

InitParser == InitRegistry

\* One more line of the file is read.
ParseManifestLine ==
    /\ Len(components) < MaxComponents
    /\ \E raw \in ManifestLines :
          LET r == parse_line(components, raw) IN
          /\ components' = r.components
          /\ call' = [op |-> "line", arg |-> raw, result |-> r.result]
    /\ UNCHANGED <<files, scans, raised, hashseed, run>>

NextParser == ParseManifestLine

SpecParser == InitParser /\ [][NextParser]_vars

(***************************************************************************)
(* main (main.py): the project file is looked for, parsed, scanned, and    *)
(* the report and, on request, the JSON export are written.  run.log       *)
(* records the calls main has made, each with what it found and returned.  *)
(***************************************************************************)
\* The manifests read: the component lines of a project file, in order.
Manifests ==
    { <<>> } \cup {<<e>> : e \in ScanEntries}
             \cup {<<e, f>> : <<e, f>> \in ScanEntries \X ScanEntries}

\* for line in file: the component lines, registered in turn.
RECURSIVE ParseLines(_, _, _)
ParseLines(comps, manifest, k) ==
    IF k > Len(manifest) THEN comps
    ELSE ParseLines(add_component_from_line(comps, manifest[k][1], manifest[k][2]),
                    manifest, k + 1)

\* What parse_vbp_file returns: None, or a project.
NoProject == [is_none |-> TRUE, components |-> <<>>]
Project(comps) == [is_none |-> FALSE, components |-> comps]

\* parse_vbp_file(vbp_file_path): None when the file does not exist or
\* cannot be read, else the project.
parse_vbp_file(exists, readable, manifest) ==
    IF ~exists THEN NoProject
    ELSE IF ~readable THEN NoProject
    ELSE Project(ParseLines(<<>>, manifest, 1))

\* A main that writes the report straight after parsing.
main_next_without_scan(pc, ok, json) ==
    CASE pc = "check" -> IF ok THEN "parse" ELSE "exit1"
      [] pc = "parse" -> IF ok THEN "html" ELSE "exit1"
      [] pc = "analyze" -> IF ok THEN "html" ELSE "exit1"
      [] pc = "html" -> IF ~ok THEN "exit1" ELSE IF json THEN "json" ELSE "exit0"
      [] pc = "json" -> IF ok THEN "exit0" ELSE "exit1"

\* A main that goes on when the parser returned None.
main_next_ignoring_parser(pc, ok, json) ==
    CASE pc = "check" -> IF ok THEN "parse" ELSE "exit1"
      [] pc = "parse" -> "analyze"
      [] pc = "analyze" -> IF ok THEN "html" ELSE "exit1"
      [] pc = "html" -> IF ~ok THEN "exit1" ELSE IF json THEN "json" ELSE "exit0"
      [] pc = "json" -> IF ok THEN "exit0" ELSE "exit1"

\* Where main goes after the call made at pc: ok says that the file was
\* found (check), that a project was returned (parse), that the call did
\* not raise (analyze, html, json).  exit0 and exit1 are main's return
\* values; an exception that leaves main ends the process with status 1.
main_next(pc, ok, json) ==
    CASE pc = "check" -> IF ok THEN "parse" ELSE "exit1"
      [] pc = "parse" -> IF ok THEN "analyze" ELSE "exit1"
      [] pc = "analyze" -> IF ok THEN "html" ELSE "exit1"
      [] pc = "html" -> IF ~ok THEN "exit1" ELSE IF json THEN "json" ELSE "exit0"
      [] pc = "json" -> IF ok THEN "exit0" ELSE "exit1"

Called(fn, found, returned) == [fn |-> fn, found |-> found, returned |-> returned]

InitMain ==
    /\ components = <<>>
    /\ files \in FileSystems
    /\ scans = 0
    /\ raised = FALSE
    /\ call = NoCall
    /\ hashseed = "insertion"
    /\ run \in [pc : {"check"}, log : {<<>>}, json : BOOLEAN]

\* if not os.path.exists(args.vbp_file): return 1
MainCheckFile ==
    /\ run.pc = "check"
    /\ \E exists \in BOOLEAN :
          run' = [run EXCEPT !.pc = main_next("check", exists, run.json),
                             !.log = Append(@, Called("exists", exists, exists))]
    /\ UNCHANGED <<components, files, scans, raised, call, hashseed>>

\* project = parse_vbp_file(args.vbp_file); if not project: return 1; then
\* the component breakdown is logged with main's own count_by_type, which
\* reads the component types of the parsed project.
MainParse ==
    /\ run.pc = "parse"
    /\ \E exists \in BOOLEAN, readable \in BOOLEAN, manifest \in Manifests :
          LET project == parse_vbp_file(exists, readable, manifest) IN
          /\ components' = project.components
          /\ run' = [run EXCEPT
                        !.pc = main_next("parse", ~project.is_none, run.json),
                        !.log = Append(@, Called("parse_vbp_file", exists,
                                                 ~project.is_none))
                                \o (IF project.is_none THEN <<>>
                                    ELSE <<Called("count_by_type", TRUE, TRUE)>>)]
    /\ UNCHANGED <<files, scans, raised, call, hashseed>>

\* analyze_dependencies(project)
MainAnalyze ==
    /\ run.pc = "analyze"
    /\ \E shapes \in ShapeOrders, order \in ComponentOrders(Len(components)) :
          LET r == analyze_dependencies(components, order, files, shapes) IN
          /\ components' = r.comps
          /\ raised' = r.raised
          /\ run' = [run EXCEPT
                        !.pc = main_next("analyze", ~r.raised, run.json),
                        !.log = Append(@, Called("analyze_dependencies", TRUE,
                                                 ~r.raised))]
    /\ scans' = scans + 1
    /\ UNCHANGED <<files, call, hashseed>>

\* logger.info(message), as an entry of run.log.
Logged(message) == Called(message, TRUE, TRUE)

\* try: generate_html_report(project, output_file); logger.info("Code map
\* has been generated") except Exception: return 1.  The return value of
\* the generator is not looked at.
MainReport ==
    /\ run.pc = "html"
    /\ \E target \in TestTargets :
          LET r == generate_html_report(components, hashseed, target) IN
          /\ call' = [op |-> "html", arg |-> target, result |-> r]
          /\ run' = [run EXCEPT
                        !.pc = main_next("html", ~r.raised, run.json),
                        !.log = Append(@, Called("generate_html_report",
                                                 target.file = "writable", r.ok))
                                \o (IF r.raised THEN <<>>
                                    ELSE <<Logged("Code map has been generated")>>)]
    /\ components' = project_after(components, "html")
    /\ UNCHANGED <<files, scans, raised, hashseed>>

\* if args.json: try: export_json(project, json_file); logger.info("JSON
\* data has been exported") except Exception: return 1.  The return value
\* of the export is not looked at.
MainExport ==
    /\ run.pc = "json"
    /\ \E target \in TestTargets :
          LET r == export_json(components, hashseed, target) IN
          /\ call' = [op |-> "export", arg |-> target, result |-> r]
          /\ run' = [run EXCEPT
                        !.pc = main_next("json", ~r.raised, run.json),
                        !.log = Append(@, Called("export_json",
                                                 target.file = "writable", r.ok))
                                \o (IF r.raised THEN <<>>
                                    ELSE <<Logged("JSON data has been exported")>>)]
    /\ components' = project_after(components, "export")
    /\ UNCHANGED <<files, scans, raised, hashseed>>

NextMain == MainCheckFile \/ MainParse \/ MainAnalyze \/ MainReport \/ MainExport

SpecMain == InitMain /\ [][NextMain]_vars

(***************************************************************************)
(* Shorthands used by the properties.                                      *)
(***************************************************************************)
Indices == 1..Len(components)
NameOf(i) == components[i].name
DepsOf(i) == components[i].dependencies
DepSet(i) == Range(components[i].dependencies)
SameIgnoringCase(m, n) == Lower(m) = Lower(n)

\* C1: dependents/dependency duality: B is among get_dependents(project, A)
\* exactly when A.name is an element of B.dependencies, for all components
\* A and B of the project, and every listed dependent is listed once.
DependentsDuality ==
    \A a \in Indices :
        LET ds == get_dependents(components, a) IN
        /\ \A b \in Indices : (b \in Range(ds)) <=> (NameOf(a) \in DepSet(b))
        /\ Range(ds) \subseteq Indices

\* A dependents query answered for a name that one component lists twice
\* and that a namesake differing in case does not receive.
DependentsDualityWitness ==
    /\ call.op = "dependents"
    /\ call.arg \in Indices
    /\ call.result = get_dependents(components, call.arg)
    /\ Len(call.result) = 2
    /\ \E b \in Range(call.result) : Len(DepsOf(b)) = 2 /\ DepsOf(b)[1] = DepsOf(b)[2]
    /\ \E b \in Indices :
          /\ b \notin Range(call.result)
          /\ \E d \in DepSet(b) : d # NameOf(call.arg)
                                   /\ SameIgnoringCase(d, NameOf(call.arg))

\* C2: registry name uniqueness: after any sequence of registrations through
\* add_component_from_line no two components have names that are equal when
\* compared case-insensitively.
RegistryNamesUnique ==
    \A i, j \in Indices :
        i # j => ~SameIgnoringCase(NameOf(i), NameOf(j))

\* A registry in which a colliding name had to skip a taken suffix.
RegistryNamesUniqueWitness ==
    /\ Len(components) = 3
    /\ NameOf(1) = <<"a">>
    /\ NameOf(2) = <<"a", "_", "1">>
    /\ NameOf(3) = <<"A", "_", "2">>

\* C3: case-insensitive lookup: find_component_by_name(n) returns the first
\* component in registration order whose name equals n ignoring case, and
\* None exactly when no registered name equals n ignoring case.
LookupPost(n, r) ==
    /\ (r = None) <=> (\A i \in Indices : ~SameIgnoringCase(NameOf(i), n))
    /\ r # None =>
          /\ r \in Indices
          /\ SameIgnoringCase(NameOf(r), n)
          /\ \A j \in 1..(r - 1) : ~SameIgnoringCase(NameOf(j), n)

LookupFindsFirstIgnoringCase ==
    \A n \in ProbeNames : LookupPost(n, find_component_by_name(components, n))

\* A lookup of "A" answered with the earlier-registered "a" although a
\* component spelled "A" is registered after it.
LookupWitness ==
    /\ call.op = "find"
    /\ call.arg = <<"A">>
    /\ call.result = 1
    /\ Len(components) >= 2
    /\ NameOf(1) = <<"a">>
    /\ \E j \in 2..Len(components) : NameOf(j) = <<"A">>

(***************************************************************************)
(* What a source text refers to, read off its identifiers: an identifier   *)
(* is a maximal run of word characters; it is a reference when a dot       *)
(* follows it, or when the identifier "New", respectively "As", precedes   *)
(* it with only white space in between.                                    *)
(***************************************************************************)
IsIdentifier(text, i, j) ==
    /\ 1 <= i /\ i <= j /\ j <= Len(text)
    /\ \A k \in i..j : IsWordChar(text[k])
    /\ i = 1 \/ ~IsWordChar(text[i - 1])
    /\ j = Len(text) \/ ~IsWordChar(text[j + 1])

IdentifierIs(text, i, j, word) ==
    IsIdentifier(text, i, j) /\ SameIgnoringCase(SubSeq(text, i, j), word)

PrecededBy(text, i, keyword) ==
    \E p, q \in 1..Len(text) :
        /\ IdentifierIs(text, p, q, keyword)
        /\ q + 1 < i
        /\ \A k \in (q + 1)..(i - 1) : IsSpace(text[k])

Mentions(shape, text, name) ==
    \E i, j \in 1..Len(text) :
        /\ IdentifierIs(text, i, j, name)
        /\ CASE shape = "dot" -> j < Len(text) /\ text[j + 1] = "."
             [] shape = "new" -> PrecededBy(text, i, <<"n", "e", "w">>)
             [] shape = "as" -> PrecededBy(text, i, <<"a", "s">>)

MentionTable ==
    [t \in SourceTexts |->
        [sh \in Shapes |-> {n \in CandidateNames : Mentions(sh, t, n)}]]

MentionedIn(text) == UNION {MentionTable[text][sh] : sh \in Shapes}

Readable(c) == components[c].filename \in DOMAIN files
TextOf(c) == files[components[c].filename]
OthersOf(c) == {NameOf(i) : i \in Indices \ {c}}
Scanned == scans >= 1

TextDottedAndNew ==
    <<"a", "b", ".", "x", " ", "N", "e", "w", " ", "A", "B", " ", " ",
      "a", "s", " ", "a">>
TextSelfAndUnknown == <<"a", ".", "x", " ", "A", "s", " ", "a", "_", "1">>

\* C4: no self-loops: after the scan pass has returned no component's
\* dependencies holds the component's own name, even when its own name
\* occurs in its source text in one of the matched shapes.
NoSelfLoops ==
    Scanned => \A c \in Indices : NameOf(c) \notin DepSet(c)

\* A scanned component whose text refers to its own name and to another's.
NoSelfLoopsWitness ==
    /\ Scanned
    /\ \E c \in Indices :
          /\ Readable(c)
          /\ components[c].content = TextOf(c)
          /\ NameOf(c) \in MentionedIn(TextOf(c))
          /\ DepSet(c) # {}

\* C5: scanner deduplication: after the scan pass every component's
\* dependencies holds each target name at most once, however often and in
\* however many shapes the text refers to it.
DependenciesHoldNoDuplicate ==
    Scanned =>
        \A c \in Indices :
            \A k, l \in 1..Len(DepsOf(c)) :
                k # l => DepsOf(c)[k] # DepsOf(c)[l]

\* A scanned component whose text names one target in dotted access and
\* after New, and holds it as a dependency.
DependenciesHoldNoDuplicateWitness ==
    /\ Scanned
    /\ \E c \in Indices :
          /\ components[c].content = TextDottedAndNew
          /\ <<"a", "b">> \in MentionTable[TextDottedAndNew]["dot"]
          /\ <<"a", "b">> \in MentionTable[TextDottedAndNew]["new"]
          /\ <<"a", "b">> \in DepSet(c)

\* The directory with every missing source file replaced by an empty one.
WithEmptyFiles ==
    [f \in DOMAIN files \cup {components[c].filename : c \in Indices} |->
        IF f \in DOMAIN files THEN files[f] ELSE <<>>]

\* The pass as it would run over that directory.
ScanOfEmptyFiles ==
    analyze_dependencies(components, [i \in Indices |-> i], WithEmptyFiles,
                         <<"dot", "new", "as">>).comps

\* C6: soft-fail on a missing file: the scan does not raise, leaves a
\* component whose file cannot be read with empty content and no
\* dependencies, and gives every other component the dependencies it would
\* have if the unreadable component's text were empty.
MissingFileIsSoft ==
    Scanned =>
        /\ ~raised
        /\ \A c \in Indices :
              /\ ~Readable(c) =>
                    /\ components[c].content = <<>>
                    /\ DepsOf(c) = <<>>
              /\ Readable(c) =>
                    /\ components[c].content = TextOf(c)
                    /\ DepSet(c) = Range(ScanOfEmptyFiles[c].dependencies)

\* A finished scan of a project whose first component has no file and
\* whose later component has one, with a reference found in it.
MissingFileIsSoftWitness ==
    /\ Scanned
    /\ Len(components) >= 2
    /\ ~Readable(1)
    /\ \E c \in Indices : Readable(c) /\ DepSet(c) # {}

\* C7: scan idempotence: a second pass over unchanged source texts leaves
\* every component's dependencies as the first pass left them: the same
\* names, and as many entries.
RescanChangesNothing ==
    [][(scans >= 1 /\ scans' = scans + 1) =>
          \A c \in Indices :
              /\ Range(components'[c].dependencies) = DepSet(c)
              /\ Len(components'[c].dependencies) = Len(DepsOf(c))]_vars

\* Two passes done over a project in which a reference was found.
RescanChangesNothingWitness ==
    /\ scans = 2
    /\ \E c \in Indices : DepSet(c) # {}

\* C8: shape detection: after the scan, a component's dependencies are the
\* other registered names its text refers to as T.<member>, New T or As T,
\* letter case ignored: the union over the three shapes, whatever the order
\* in which the shapes were tried.
DependenciesAreUnionOfShapes ==
    Scanned =>
        \A c \in Indices :
            Readable(c) =>
                DepSet(c) = UNION {MentionTable[TextOf(c)][sh] \cap OthersOf(c)
                                      : sh \in Shapes}

\* A scanned component with one dependency found by a dot and after New,
\* and another found only after As.
DependenciesAreUnionOfShapesWitness ==
    /\ Scanned
    /\ \E c \in Indices :
          /\ Readable(c)
          /\ TextOf(c) = TextDottedAndNew
          /\ DepSet(c) = {<<"a">>, <<"a", "b">>}
          /\ <<"a">> \notin MentionTable[TextOf(c)]["dot"]
          /\ <<"a", "b">> \notin MentionTable[TextOf(c)]["as"]

\* C9: only known targets are recorded: after the scan every element of a
\* component's dependencies is the name of another registered component,
\* and an identifier that names no component raises nothing.
OnlyRegisteredTargets ==
    Scanned =>
        /\ ~raised
        /\ \A c \in Indices : DepSet(c) \subseteq OthersOf(c)

\* A scanned component whose text refers to a_1, which is not registered,
\* next to a registered name.
OnlyRegisteredTargetsWitness ==
    /\ Scanned
    /\ \E c \in Indices :
          /\ Readable(c)
          /\ TextOf(c) = TextSelfAndUnknown
          /\ <<"a", "_", "1">> \in MentionedIn(TextOf(c))
          /\ <<"a", "_", "1">> \notin OthersOf(c)
          /\ DepSet(c) = {<<"a">>}

\* C10: mutual references are kept: when A's text refers to B and B's text
\* refers to A, the scan records B for A and A for B and raises nothing, in
\* whatever order the components are scanned.
MutualReferencesKept ==
    Scanned =>
        /\ ~raised
        /\ \A a, b \in Indices :
              (/\ a # b
               /\ Readable(a) /\ NameOf(b) \in MentionedIn(TextOf(a))
               /\ Readable(b) /\ NameOf(a) \in MentionedIn(TextOf(b)))
              => (NameOf(b) \in DepSet(a) /\ NameOf(a) \in DepSet(b))

\* Two scanned components, each holding the other as a dependency.
MutualReferencesKeptWitness ==
    /\ Scanned
    /\ \E a, b \in Indices :
          /\ a # b
          /\ Readable(a) /\ Readable(b)
          /\ TextOf(a) # TextOf(b)
          /\ NameOf(b) \in DepSet(a)
          /\ NameOf(a) \in DepSet(b)

(***************************************************************************)
(* The projection builders.                                                *)
(***************************************************************************)
\* The connectivity of a component, read off the graph: the components
\* that list its name, plus the distinct names it lists.
Connections(c) ==
    Cardinality({b \in Indices : NameOf(c) \in DepSet(b)}) + Cardinality(DepSet(c))

CoreView == generate_core_architecture_diagram(components, hashseed)

ComponentsOf(nodes) == {nodes[i].component : i \in 1..Len(nodes)}

\* C11: core view selection: generate_core_architecture_diagram selects
\* exactly min(20, number of components) components, those of highest
\* connectivity (dependents plus distinct dependencies); the nodes are written
\* by connectivity descending, and of two components of equal connectivity
\* the earlier registered one comes first and wins the last slot.
CoreViewSelection ==
    LET nodes == CoreView.nodes
        conn == [c \in Indices |-> Connections(c)]
        Before(a, b) == conn[a] > conn[b] \/ (conn[a] = conn[b] /\ a < b)
    IN  /\ Len(nodes) = IF Len(components) < 20 THEN Len(components) ELSE 20
        /\ ComponentsOf(nodes) \subseteq Indices
        /\ \A i, j \in 1..Len(nodes) :
              i < j => Before(nodes[i].component, nodes[j].component)
        /\ \A a \in ComponentsOf(nodes), b \in Indices \ ComponentsOf(nodes) :
              Before(a, b)

\* A core view of more than 20 components whose first node was registered
\* last, whose connectivity counts a name listed twice once, and whose last
\* slot went to the earlier of several components of equal connectivity.
CoreViewSelectionWitness ==
    /\ call.op = "core"
    /\ Len(components) > 20
    /\ LET nodes == call.result.nodes
           last == nodes[Len(nodes)].component
       IN  /\ Len(nodes) = 20
           /\ nodes[1].component = Len(components)
           /\ Len(DepsOf(nodes[1].component)) = 2
           /\ Connections(nodes[1].component) = 1
           /\ \E b \in Indices \ ComponentsOf(nodes) :
                 b > last /\ Connections(b) = Connections(last)

\* The component a dependency entry stands for: the first registered
\* component whose name equals the entry ignoring case.
Resolves(d, t) ==
    /\ t \in Indices
    /\ SameIgnoringCase(NameOf(t), d)
    /\ \A j \in 1..(t - 1) : ~SameIgnoringCase(NameOf(j), d)

DependsOn(a, b) == \E d \in DepSet(a) : Resolves(d, b)

\* The identifier under which a view shows a component.
IdIn(nodes, c) == nodes[CHOOSE i \in 1..Len(nodes) : nodes[i].component = c].id

\* C12: the core view is an induced subgraph: every edge of the core view
\* has both endpoints among the selected (top 20) components, and every
\* dependency of a selected component that resolves to another selected
\* component is written as an edge.
CoreViewInduced ==
    LET nodes == CoreView.nodes
        edges == Range(CoreView.edges)
        selected == ComponentsOf(nodes)
    IN  /\ \A e \in edges :
              \E a, b \in selected :
                  e = <<IdIn(nodes, a), IdIn(nodes, b)>> /\ DependsOn(a, b)
        /\ \A a, b \in selected :
              DependsOn(a, b) => <<IdIn(nodes, a), IdIn(nodes, b)>> \in edges

\* A core view with edges, in which a selected component depends on a
\* component left out and a component left out depends on a selected one.
CoreViewInducedWitness ==
    /\ call.op = "core"
    /\ LET nodes == call.result.nodes
           selected == ComponentsOf(nodes)
       IN  /\ Len(call.result.edges) >= 19
           /\ \E a \in selected, b \in Indices \ selected : DependsOn(a, b)
           /\ \E a \in Indices \ selected, b \in selected : DependsOn(a, b)

BusinessView == generate_business_logic_diagram(components, hashseed)

TypeOf(c) == components[c].component_type

\* The components a view shows under an identifier.
ShownAs(nodes, id) == {nodes[i].component : i \in {k \in 1..Len(nodes) : nodes[k].id = id}}

\* C13: business-logic edge restriction: every edge of the business-logic
\* view is Class -> Class, Class -> secondary or secondary -> Class; an edge
\* between two secondary (non-Class) nodes is never written, even when one
\* secondary depends on another.
BusinessEdgesTouchAClass ==
    LET nodes == BusinessView.nodes IN
    \A e \in Range(BusinessView.edges) :
        /\ ShownAs(nodes, e[1]) # {} /\ ShownAs(nodes, e[2]) # {}
        /\ \A s \in ShownAs(nodes, e[1]), t \in ShownAs(nodes, e[2]) :
              TypeOf(s) = "Class" \/ TypeOf(t) = "Class"

\* A business-logic view with an edge of each of the three kinds, and two
\* secondary nodes of which one depends on the other.
BusinessEdgesWitness ==
    /\ call.op = "business"
    /\ LET nodes == call.result.nodes
           edges == Range(call.result.edges)
           Kind(e, from_class, to_class) ==
               \E s \in ShownAs(nodes, e[1]), t \in ShownAs(nodes, e[2]) :
                   /\ (TypeOf(s) = "Class") = from_class
                   /\ (TypeOf(t) = "Class") = to_class
       IN  /\ \E e \in edges : Kind(e, TRUE, TRUE)
           /\ \E e \in edges : Kind(e, TRUE, FALSE)
           /\ \E e \in edges : Kind(e, FALSE, TRUE)
           /\ \E s, t \in ComponentsOf(nodes) :
                 /\ s # t
                 /\ TypeOf(s) # "Class" /\ TypeOf(t) # "Class"
                 /\ DependsOn(s, t)

HasPrefix(id, prefix) ==
    Len(id) >= Len(prefix) /\ SubSeq(id, 1, Len(prefix)) = prefix

ClassComponents == {c \in Indices : TypeOf(c) = "Class"}

\* c is a dependency of some class, or a dependent of some class (a member
\* of what get_dependents answers for that class).
RelatedToAClass(c) ==
    \E k \in ClassComponents :
        DependsOn(k, c) \/ c \in Range(get_dependents(components, k))

\* C14: business-logic node set: the primary nodes of the business-logic
\* view are exactly the components of type Class; the secondary nodes are
\* exactly the non-Class components that are a dependency of some Class
\* component or a dependent of some Class component; every secondary node is
\* tagged with its own component type, and no other component appears.
BusinessNodeSet ==
    LET nodes == BusinessView.nodes
        primary == {i \in 1..Len(nodes) : HasPrefix(nodes[i].id, ClassPrefix)}
        secondary == {i \in 1..Len(nodes) : HasPrefix(nodes[i].id, RelatedPrefix)}
    IN  /\ primary \cup secondary = 1..Len(nodes)
        /\ primary \cap secondary = {}
        /\ \A i, j \in 1..Len(nodes) :
              i # j => nodes[i].component # nodes[j].component
        /\ {nodes[i].component : i \in primary} = ClassComponents
        /\ {nodes[i].component : i \in secondary}
              = {c \in Indices \ ClassComponents : RelatedToAClass(c)}
        /\ \A i \in secondary :
              \/ TypeOf(nodes[i].component) = "Form" /\ nodes[i].class = "form"
              \/ TypeOf(nodes[i].component) = "Module" /\ nodes[i].class = "module"
              \/ TypeOf(nodes[i].component) = "UserControl" /\ nodes[i].class = "usercontrol"
              \/ TypeOf(nodes[i].component) = "PropertyPage" /\ nodes[i].class = "propertypage"
              \/ TypeOf(nodes[i].component) = "Designer" /\ nodes[i].class = "designer"

\* A business-logic view showing a form only because it lists the class,
\* and leaving out a form whose only entry for the class is not spelled as
\* the class is named.
BusinessNodeSetWitness ==
    /\ call.op = "business"
    /\ LET shown == ComponentsOf(call.result.nodes) IN
       /\ \E c \in shown \ ClassComponents :
             /\ \A k \in ClassComponents : ~DependsOn(k, c)
             /\ \E k \in ClassComponents : NameOf(k) \in DepSet(c)
       /\ \E c \in Indices \ shown :
             \E k \in ClassComponents : DependsOn(c, k)
       /\ \E i \in 1..Len(call.result.nodes) : call.result.nodes[i].class = "form"

FormView == generate_form_relationships_diagram(components, hashseed)

FormComponents == {c \in Indices : TypeOf(c) = "Form"}

\* C15: form view: generate_form_relationships_diagram writes one node for
\* every component of type Form, including forms without any edge, and no
\* node for a component of another type; it writes an edge a -> b exactly
\* when a and b are both Forms and b is a dependency of a.
FormViewShowsFormsOnly ==
    LET nodes == FormView.nodes IN
    /\ ComponentsOf(nodes) = FormComponents
    /\ \A i, j \in 1..Len(nodes) :
          i # j => nodes[i].component # nodes[j].component /\ nodes[i].id # nodes[j].id
    /\ Range(FormView.edges)
          = {<<IdIn(nodes, a), IdIn(nodes, b)>> :
                <<a, b>> \in {p \in FormComponents \X FormComponents :
                                 DependsOn(p[1], p[2])}}

\* A form view with an edge between two forms, of which the second lists
\* nothing, while the first also depends on a class: the class is not shown
\* and no edge leads to it.
FormViewWitness ==
    /\ call.op = "forms"
    /\ LET nodes == call.result.nodes
           edges == Range(call.result.edges)
       IN  /\ \E a, b \in ComponentsOf(nodes) :
                 /\ a # b
                 /\ <<IdIn(nodes, a), IdIn(nodes, b)>> \in edges
                 /\ DepsOf(b) = <<>>
                 /\ \E k \in ClassComponents : DependsOn(a, k)
           /\ ComponentsOf(nodes) # Indices

QueryOps ==
    {"dependents", "has_dependents", "count", "core", "forms", "business",
     "export", "html"}

\* What the builder of the recorded call writes when it is called again.
BuiltAgain ==
    CASE call.op = "core" -> CoreView
      [] call.op = "forms" -> FormView
      [] call.op = "business" -> BusinessView

RepeatedBuildIsSame ==
    call.op \in {"core", "forms", "business"} =>
        /\ Range(BuiltAgain.nodes) = Range(call.result.nodes)
        /\ Range(BuiltAgain.edges) = Range(call.result.edges)

CallLeavesProject == call'.op \in QueryOps => components' = components

CallsOf(fn) == {i \in 1..Len(run.log) : run.log[i].fn = fn}

ReturnedBefore(fn, i) ==
    \E j \in 1..(i - 1) : run.log[j].fn = fn /\ run.log[j].returned

\* C17: pipeline ordering: in main, generate_html_report and export_json are
\* invoked only after analyze_dependencies has returned, analyze_dependencies
\* only after parse_vbp_file has returned a project, and
\* analyze_dependencies at most once per run, so that no query or projection
\* runs on a partially scanned graph: whenever a generator is called, the
\* one scan pass has returned.
PipelineOrdered ==
    /\ \A i \in CallsOf("generate_html_report") \cup CallsOf("export_json") :
          /\ ReturnedBefore("analyze_dependencies", i)
          /\ scans = 1 /\ ~raised
    /\ \A i \in CallsOf("analyze_dependencies") :
          ReturnedBefore("parse_vbp_file", i)
    /\ Cardinality(CallsOf("analyze_dependencies")) <= 1
    /\ scans <= 1

\* A finished run that wrote the report and the export of a project in
\* which the scan found a dependency.
PipelineOrderedWitness ==
    /\ run.pc = "exit0"
    /\ CallsOf("generate_html_report") # {}
    /\ CallsOf("export_json") # {}
    /\ \E c \in Indices : DepsOf(c) # <<>>
    /\ Len(components) = 2

\* C18: an unparseable project aborts: parse_vbp_file returns None, without
\* raising, when the project file does not exist; and whenever the file is
\* missing or the parser returns None, main returns exit status 1 without
\* invoking analyze_dependencies, generate_html_report or export_json.
UnparseableProjectAborts ==
    /\ \A i \in CallsOf("parse_vbp_file") :
          ~run.log[i].found => ~run.log[i].returned
    /\ \A i \in CallsOf("exists") \cup CallsOf("parse_vbp_file") :
          ~run.log[i].returned =>
              /\ run.pc = "exit1"
              /\ i = Len(run.log)
              /\ CallsOf("analyze_dependencies") = {}
              /\ CallsOf("generate_html_report") = {}
              /\ CallsOf("export_json") = {}
              /\ scans = 0

\* A run in which the project file was there when main looked for it and
\* gone when the parser opened it: the parser returned None and main ended
\* with status 1.
UnparseableProjectAbortsWitness ==
    /\ run.pc = "exit1"
    /\ Len(run.log) = 2
    /\ run.log[1] = Called("exists", TRUE, TRUE)
    /\ run.log[2] = Called("parse_vbp_file", FALSE, FALSE)

(***************************************************************************)
(* The JSON export.                                                        *)
(***************************************************************************)
Exported == export_data(components, hashseed)

\* C19: exported dependencies are deduplicated: in the data written by
\* export_json, each component's dependencies list holds exactly the
\* distinct names of that component's dependencies, each once, even when the
\* component lists the same name several times.
ExportedDependenciesDistinct ==
    /\ Len(Exported.components) = Len(components)
    /\ \A c \in Indices :
          LET written == Exported.components[c].dependencies IN
          /\ Range(written) = DepSet(c)
          /\ \A i, j \in 1..Len(written) : i # j => written[i] # written[j]

\* An export of a component that lists five entries, one name twice and a
\* second spelling of it once: four names are written.
ExportedDependenciesDistinctWitness ==
    /\ call.op = "export"
    /\ call.result.ok
    /\ \E c \in Indices :
          /\ Len(DepsOf(c)) = 5
          /\ Len(call.result.written.components[c].dependencies) = 4
          /\ \E m, n \in DepSet(c) : m # n /\ SameIgnoringCase(m, n)

\* C20: exported counters agree with exported lists: in every component
\* record dependency_count equals the length of its dependencies list and
\* dependent_count the length of its dependents list, and
\* statistics.total_components equals the number of component records.
ExportedCountersAgree ==
    /\ \A c \in 1..Len(Exported.components) :
          LET record == Exported.components[c] IN
          /\ record.dependency_count = Len(record.dependencies)
          /\ record.dependent_count = Len(record.dependents)
    /\ Exported.statistics.total_components = Len(Exported.components)

\* An export of three components in which one record counts fewer
\* dependencies than its component lists entries, and one counts two
\* dependents.
ExportedCountersAgreeWitness ==
    /\ call.op = "export"
    /\ call.result.ok
    /\ call.result.written.statistics.total_components = 3
    /\ \E c \in Indices :
          /\ call.result.written.components[c].dependency_count < Len(DepsOf(c))
          /\ call.result.written.components[c].dependency_count > 0
    /\ \E c \in Indices : call.result.written.components[c].dependent_count = 2

\* C21: generator failures are returned, not raised: generate_html_report
\* returns False, and raises nothing, when the output file cannot be opened
\* or written; export_json returns False when the output directory cannot be
\* created, when the file cannot be written, and when test_mode is set and
\* the path contains CON, in which case no file is written; and either
\* returns True only after the file has been written completely.
GeneratorFailuresReturned ==
    call.op \in {"export", "html"} =>
        /\ ~call.result.raised
        /\ call.arg.file # "writable" => ~call.result.ok
        /\ call.result.ok => call.result.file = "complete"
        /\ call.op = "export" =>
              /\ call.arg.dir = "uncreatable" => ~call.result.ok
              /\ call.arg.test_mode /\ call.arg.con =>
                    /\ ~call.result.ok
                    /\ call.result.file = "untouched"

\* An export whose writing failed half way: False was returned and the file
\* is there in part.
GeneratorFailuresWitness ==
    /\ call.op = "export"
    /\ call.arg.file = "fails_midway"
    /\ call.arg.dir = "creatable"
    /\ ~call.arg.test_mode
    /\ ~call.result.ok
    /\ call.result.file = "partial"
    /\ Len(components) = 2

\* The strings the written report holds for names: those of the sections,
\* the labels of the three diagrams, and those of the script block.
ReportTexts(report) ==
    report.component_details \cup report.dependency_table
        \cup {report.core.nodes[n].label : n \in 1..Len(report.core.nodes)}
        \cup {report.forms.nodes[n].label : n \in 1..Len(report.forms.nodes)}
        \cup {report.business.nodes[n].label :
                 n \in 1..Len(report.business.nodes)}
        \cup report.focus_options \cup report.project_data

HasMarkup(name) == \E i \in 1..Len(name) : name[i] \in {"<", ">", "\"", "'"}

\* C22: names are escaped everywhere in the report: for every component
\* name that holds a markup character (<, >, a quote), no string of the
\* written HTML report, in the component list, the detail sections, the
\* dependency table, the diagram labels, the focus-mode dropdown or the
\* projectData script block, holds the name verbatim.
NamesEscapedEverywhere ==
    (call.op = "html" /\ call.result.ok) =>
        \A c \in Indices :
            HasMarkup(NameOf(c)) =>
                \A text \in ReportTexts(call.result.written) :
                    ~Contains(text, NameOf(c))

\* C23: reproducible dependency order: the order of the serialized
\* dependencies is determined by the project alone: the dependencies an
\* export has written for a component are those an export of the same
\* project writes in any process, whatever order that process iterates its
\* sets in.
ExportOrderReproducible ==
    (call.op = "export" /\ call.result.ok) =>
        \A seed \in HashSeeds :
            \A c \in Indices :
                export_data(components, seed).components[c].dependencies
                    = call.result.written.components[c].dependencies

\* The name and the file a manifest entry asks for, before any renaming.
RequestedFile(file_info) == Strip(Split(file_info, ";")[1])
RequestedName(file_info) ==
    NameFromParts(Split(file_info, ";"), 2,
                  SplitExtRoot(Basename(RequestedFile(file_info))))

Taken(n) == \E i \in Indices : SameIgnoringCase(NameOf(i), n)
WithSuffix(n, k) == n \o <<"_">> \o IntToStr(k)

\* The step registered this entry and followed the suffix rule.
RegisteredBySuffixRule(e) ==
    LET n == RequestedName(e[1])
        new == components'[Len(components')]
    IN  /\ new.filename = RequestedFile(e[1])
        /\ new.component_type = e[2]
        /\ ~Taken(n) => new.name = n
        /\ Taken(n) =>
              \E k \in 1..(Len(components) + 1) :
                  /\ new.name = WithSuffix(n, k)
                  /\ ~Taken(WithSuffix(n, k))
                  /\ \A j \in 1..(k - 1) : Taken(WithSuffix(n, j))

SuffixRuleStep ==
    Len(components') > Len(components) =>
        /\ Len(components') = Len(components) + 1
        /\ SubSeq(components', 1, Len(components)) = components
        /\ \E e \in RegistryEntries : RegisteredBySuffixRule(e)

\* C24: suffix rule: when add_component_from_line registers a name N that
\* matches a registered component ignoring case, the new component is named
\* N_k with k the smallest integer >= 1 such that N_k matches no registered
\* component; a name that matches nothing is registered unchanged; the
\* search ends (k is at most the number of components plus one); and the
\* components registered before keep their names, places and number.
SuffixRule == [][SuffixRuleStep]_vars

\* A registry in which A met a and then a_1, registered earlier under its
\* own name, and became A_2.
SuffixRuleWitness ==
    /\ Len(components) = 3
    /\ NameOf(1) = <<"a", "_", "1">>
    /\ NameOf(2) = <<"a">>
    /\ NameOf(3) = <<"A", "_", "2">>
    /\ components[3].component_type = "UserControl"

Views == {CoreView, FormView, BusinessView}

WrittenOnce(edges) ==
    \A i, j \in 1..Len(edges) : edges[i] = edges[j] => i = j

\* C25: edges are deduplicated in every view: in the core, the form and the
\* business-logic view each ordered pair (sourceId, targetId) is written at
\* most once, also when a dependencies list holds an entry twice or in two
\* spellings, and when the business-logic view meets the edge in the loop
\* over the classes and in the loop over the related components.
EdgesWrittenOnce == \A view \in Views : WrittenOnce(view.edges)

\* A business-logic view written for a form whose dependencies name the
\* class b twice and once more as B: the view holds the edge from the form
\* to the class, written by the loop over the related components, and an
\* edge written by the loop over the classes.
EdgesWrittenOnceWitness ==
    /\ call.op = "business"
    /\ \E a, b \in Indices :
          /\ TypeOf(a) = "Form" /\ TypeOf(b) = "Class"
          /\ Cardinality({k \in 1..Len(DepsOf(a)) : Resolves(DepsOf(a)[k], b)}) = 3
          /\ DepsOf(b) # <<>>
          /\ \E e, f \in 1..Len(call.result.edges) :
                /\ call.result.edges[e][1] = IdIn(call.result.nodes, a)
                /\ call.result.edges[e][2] = IdIn(call.result.nodes, b)
                /\ call.result.edges[f][1] = IdIn(call.result.nodes, b)

IdsOf(nodes) == {nodes[n].id : n \in 1..Len(nodes)}

\* C26: node identifiers: within one builder pass distinct emitted nodes
\* have distinct identifiers (a class<i> and a related<i> of the
\* business-logic view included), and the source and the target identifier
\* of every edge is the identifier of a node emitted in the same pass.
NodeIdentifiersSound ==
    \A view \in Views :
        /\ \A m, n \in 1..Len(view.nodes) :
              view.nodes[m].id = view.nodes[n].id => m = n
        /\ \A e \in 1..Len(view.edges) :
              /\ view.edges[e][1] \in IdsOf(view.nodes)
              /\ view.edges[e][2] \in IdsOf(view.nodes)

\* A business-logic view with the nodes class0 and related0 and an edge
\* from each to the other.
NodeIdentifiersWitness ==
    /\ call.op = "business"
    /\ LET class0 == <<"c", "l", "a", "s", "s", "0">>
           related0 == <<"r", "e", "l", "a", "t", "e", "d", "0">>
       IN  /\ {class0, related0} \subseteq IdsOf(call.result.nodes)
           /\ {<<class0, related0>>, <<related0, class0>>}
                  \subseteq Range(call.result.edges)

GeneratorCalls == CallsOf("generate_html_report") \cup CallsOf("export_json")

\* C27: the exit status reflects a failed report: when generate_html_report
\* fails main returns 1 and does not log that the code map has been
\* generated; when the export was asked for and export_json fails main
\* returns 1; main returns 0 only when every requested output was written.
ExitStatusReflectsFailure ==
    /\ \A i \in GeneratorCalls : ~run.log[i].returned => run.pc = "exit1"
    /\ \A i \in CallsOf("generate_html_report") :
          ~run.log[i].returned => CallsOf("Code map has been generated") = {}
    /\ run.pc = "exit0" => \A i \in GeneratorCalls : run.log[i].returned

\* C28: has_dependents agrees with get_dependents: for every project state
\* and every component c, has_dependents(project, c) is true exactly when
\* get_dependents(project, c) is not empty.
HasDependentsAgrees ==
    call.op = "has_dependents" =>
        (call.result <=> get_dependents(components, call.arg) # <<>>)

\* C29: view edges agree with the query layer: for any two components A and
\* B that are both nodes of the core view, the edge A->B is written exactly
\* when A is in get_dependents(project, B), whatever the dependencies lists
\* hold.
ViewEdgesAgreeWithQueries ==
    call.op = "core" =>
        LET nodes == call.result.nodes
            edges == Range(call.result.edges)
        IN  \A a, b \in ComponentsOf(nodes) :
                <<IdIn(nodes, a), IdIn(nodes, b)>> \in edges
                    <=> a \in Range(get_dependents(components, b))

\* The line, blanks around it aside, starts with the prefix of type t.
Declares(raw, t) == StartsWith(Strip(raw), LinePrefix(t))

\* The step read one line and registered what the line declares.
OneComponentPerLineStep ==
    call'.op = "line" =>
        IF \E t \in ComponentTypes : Declares(call'.arg, t)
        THEN /\ Len(components') = Len(components) + 1
             /\ SubSeq(components', 1, Len(components)) = components
             /\ Declares(call'.arg, components'[Len(components')].component_type)
             /\ call'.result = TRUE
        ELSE /\ components' = components
             /\ call'.result = FALSE

TypeCountsSumToTotal ==
    count_components_by_type(components, "Form")
        + count_components_by_type(components, "Module")
        + count_components_by_type(components, "Class")
        + count_components_by_type(components, "UserControl")
        + count_components_by_type(components, "PropertyPage")
        + count_components_by_type(components, "Designer")
    = Len(components)

\* C30: one component per manifest entry: every line that starts with
\* Form=, Module=, Class=, UserControl=, PropertyPage= or Designer=
\* registers exactly one component of that type, behind those registered
\* before (add_component_from_line returns True whatever follows the
\* prefix); every other line (Name=, Reference=, blank, unrecognised)
\* registers none; hence the six per-type counts add up to the number of
\* components.
OneComponentPerLine ==
    [][OneComponentPerLineStep]_vars /\ []TypeCountsSumToTotal

\* A designer and a property page were registered, and then the line
\* "Form=", which names no file, registered a form.
OneComponentPerLineWitness ==
    /\ call.op = "line"
    /\ call.arg = <<"F", "o", "r", "m", "=">>
    /\ call.result = TRUE
    /\ Len(components) = 3
    /\ TypeOf(1) = "Designer"
    /\ TypeOf(2) = "PropertyPage"
    /\ TypeOf(3) = "Form"
    /\ NameOf(3) = <<>>

=============================================================================
